---- MODULE Spec2Model ----
(***************************************************************************)
(* Routing cycle detector: partition pass, LRU handle cache, per-bucket    *)
(* adjacency construction, the two cycle searches and the scheduler's      *)
(* ordered reduction, as a state machine over byte strings.                *)
(*                                                                         *)
(* A byte string is a sequence of byte values 0..255.  Files (the input    *)
(* and the bucket files) are byte strings; lines are cut from them the way *)
(* Python's binary file iteration cuts them (after every LF).              *)
(***************************************************************************)
EXTENDS Integers, Sequences, FiniteSets, TLC

\* ------------------------------------------------------------------ bounds

\* Largest number of raw lines of the input file in a run of the whole solver.
MaxLines == 4

\* Largest number of raw lines of the input file in a run of the partition pass
\* alone, and of the bucket file in a run of one bucket processor alone.
MaxRawLines == 3
MaxBucketLines == 4

\* Largest number of write calls on a cache used on its own.
MaxWrites == 5

\* Capacity handed to LRUFileCache by the partition pass.  The program uses
\* MAX_OPEN_HANDLES = 128 (partition/types.py:9); the model scales it down so
\* that evictions happen with a handful of buckets.
MaxOpenHandles == 2

\* max_workers of the thread pool.
MaxWorkers == 2

\* ------------------------------------------------------------ byte strings

LF   == 10
CR   == 13
PIPE == 124

\* Python's None, one value per type it stands in for, so that it compares with
\* the values of that type: no parsed record, no node, no index, no result.
NoRecord == <<>>
NoNode   == <<-1>>
NoIndex  == -1
NoResult == [claim_id |-> <<>>, status_code |-> <<>>, cycle_length |-> 0]

Pow2(n) == 2 ^ n

RECURSIVE Concat(_)
\* b"".join(seq)
Concat(seq) == IF seq = <<>> THEN <<>> ELSE Head(seq) \o Concat(Tail(seq))

\* rstrip(b"\n"): only the LF bytes are dropped.
RECURSIVE rstripLF(_)
rstripLF(line) ==
    IF line = <<>> THEN <<>>
    ELSE IF line[Len(line)] = LF
         THEN rstripLF(SubSeq(line, 1, Len(line) - 1))
         ELSE line

\* bytes.rstrip(b"\n\r"): drop every trailing LF or CR byte.
RECURSIVE rstrip(_)
rstrip(line) ==
    IF line = <<>> THEN <<>>
    ELSE IF line[Len(line)] \in {LF, CR}
         THEN rstrip(SubSeq(line, 1, Len(line) - 1))
         ELSE line

\* Index of the first `sep` byte of s, 0 when there is none.
RECURSIVE IndexOf(_, _, _)
IndexOf(s, sep, i) ==
    IF i > Len(s) THEN 0
    ELSE IF s[i] = sep THEN i
    ELSE IndexOf(s, sep, i + 1)

\* bytes.split(sep, maxsplit): at most maxsplit cuts, the remainder is the
\* last part whatever it contains.
RECURSIVE split(_, _, _)
split(s, sep, maxsplit) ==
    LET i == IndexOf(s, sep, 1) IN
    IF maxsplit = 0 \/ i = 0 THEN <<s>>
    ELSE <<SubSeq(s, 1, i - 1)>> \o split(SubSeq(s, i + 1, Len(s)), sep, maxsplit - 1)

\* Binary file iteration (for line in handle): a line ends after each LF; a
\* last line without LF is yielded as it is.
RECURSIVE FileLines(_)
FileLines(bytes) ==
    IF bytes = <<>> THEN <<>>
    ELSE LET i == IndexOf(bytes, LF, 1) IN
         IF i = 0 THEN <<bytes>>
         ELSE <<SubSeq(bytes, 1, i)>> \o FileLines(SubSeq(bytes, i + 1, Len(bytes)))

\* Bytewise lexicographic order of Python bytes (a < b).
RECURSIVE BytesLess(_, _)
BytesLess(a, b) ==
    IF b = <<>> THEN FALSE
    ELSE IF a = <<>> THEN TRUE
    ELSE IF Head(a) # Head(b) THEN Head(a) < Head(b)
    ELSE BytesLess(Tail(a), Tail(b))

\* ------------------------------------------------------------------ CRC-32
\* A 32-bit word is the set of its one-bits (bit 0 is the least significant),
\* so that xor is the symmetric difference and the word never leaves the
\* range of the model's integers.

Bits(n, width) == {i \in 0..(width - 1) : (n \div Pow2(i)) % 2 = 1}

Xor(a, b) == (a \ b) \cup (b \ a)

ShiftRight1(w) == {i - 1 : i \in w \ {0}}

\* 0xEDB88320, the reflected CRC-32/IEEE polynomial zlib uses.
CrcPoly == {31, 30, 29, 27, 26, 24, 23, 21, 20, 19, 15, 9, 8, 5}

\* One step of the bitwise CRC: shift right, xor the polynomial in when the
\* bit shifted out was set.
RECURSIVE CrcShift(_, _)
CrcShift(w, n) ==
    IF n = 0 THEN w
    ELSE CrcShift(IF 0 \in w THEN Xor(ShiftRight1(w), CrcPoly) ELSE ShiftRight1(w),
                  n - 1)

\* zlib's 256-entry table: entry n is n pushed through eight steps.
CrcTable == [n \in 0..255 |-> CrcShift(Bits(n, 8), 8)]

ByteBits == [n \in 0..255 |-> Bits(n, 8)]

LowByte(w) ==
    LET b(i) == IF i \in w THEN Pow2(i) ELSE 0
    IN b(0) + b(1) + b(2) + b(3) + b(4) + b(5) + b(6) + b(7)

ShiftRight8(w) == {i - 8 : i \in w \ (0..7)}

\* crc = table[(crc ^ byte) & 0xFF] ^ (crc >> 8), byte after byte.
RECURSIVE CrcUpdate(_, _)
CrcUpdate(w, bytes) ==
    IF bytes = <<>> THEN w
    ELSE CrcUpdate(Xor(CrcTable[LowByte(Xor(w, ByteBits[Head(bytes)]))],
                       ShiftRight8(w)),
                   Tail(bytes))

\* The CRC-32 of a byte string as a set of one-bits: the register starts and
\* ends complemented.
Crc32Bits(bytes) == Xor(CrcUpdate(0..31, bytes), 0..31)

\* The CRC-32 of the byte strings "x|1", "x|2", "y|1" and "x|1|2", the group
\* keys of the inputs, computed once.
Crc32Known ==
    [bytes \in {<<120, PIPE, 49>>, <<120, PIPE, 50>>, <<121, PIPE, 49>>,
                <<120, PIPE, 49, PIPE, 50>>} |-> Crc32Bits(bytes)]

\* zlib.crc32(bytes)
crc32(bytes) ==
    IF bytes \in DOMAIN Crc32Known THEN Crc32Known[bytes] ELSE Crc32Bits(bytes)

RECURSIVE BitsValue(_)
BitsValue(w) ==
    IF w = {} THEN 0
    ELSE LET i == CHOOSE j \in w : TRUE IN Pow2(i) + BitsValue(w \ {i})

\* A Python int of -2^31 .. 2^31 - 1 in two's complement: bits 0..30, and bit
\* 31 for the sign, which stands for every higher bit too.
IntBits(n) ==
    IF n >= 0 THEN Bits(n, 31)
    ELSE Bits(n + Pow2(30) + Pow2(30), 31) \cup {31}

\* n & m = 0 on Python ints.
AndIsZero(n, m) == IntBits(n) \cap IntBits(m) = {}

\* crc & mask, for a result that fits the model's integers.
BitAnd(w, mask) == BitsValue(w \cap IntBits(mask))

\* ------------------------------------------------- insertion-ordered dicts
\* A Python dict is the sequence of its <<key, value>> items in insertion
\* order; updating a present key keeps its place.

Range(seq) == {seq[i] : i \in 1..Len(seq)}

DictKeys(d) == [i \in 1..Len(d) |-> d[i][1]]

DictHas(d, k) == \E i \in 1..Len(d) : d[i][1] = k

DictGet(d, k, default) ==
    IF DictHas(d, k) THEN d[CHOOSE i \in 1..Len(d) : d[i][1] = k][2] ELSE default

DictSet(d, k, v) ==
    IF DictHas(d, k)
    THEN [i \in 1..Len(d) |-> IF d[i][1] = k THEN <<k, v>> ELSE d[i]]
    ELSE Append(d, <<k, v>>)

\* Iteration over a Python set visits its members in an order the program does
\* not control (it depends on the hash seed).  `ord` is a sequence listing the
\* byte strings in the order this run iterates them.
SetIter(S, ord) == SelectSeq(ord, LAMBDA x : x \in S)

Perms(S) == {f \in [1..Cardinality(S) -> S] : \A x \in S : \E i \in DOMAIN f : f[i] = x}

\* ----------------------------------------------------------------- parsing

\* parse_bucket_line cutting at every '|' and keeping the first four parts.
ParseSplittingAll(raw_line) ==
    LET line  == rstrip(raw_line)
        parts == split(line, PIPE, Len(line))
    IN IF line = <<>> THEN NoRecord
       ELSE IF Len(parts) < 4 THEN NoRecord
       ELSE SubSeq(parts, 1, 4)

\* graph/parse.py parse_bucket_line: NoRecord, or <<source, dest, claim_id, status>>.
parse_bucket_line(raw_line) ==
    LET line  == rstrip(raw_line)
        parts == split(line, PIPE, 3)
    IN IF line = <<>> THEN NoRecord
       ELSE IF Len(parts) < 4 THEN NoRecord
       ELSE parts

RECURSIVE iter_bucket_records(_)
iter_bucket_records(lines) ==
    IF lines = <<>> THEN <<>>
    ELSE LET parsed == parse_bucket_line(Head(lines)) IN
         (IF parsed # NoRecord THEN <<parsed>> ELSE <<>>)
            \o iter_bucket_records(Tail(lines))

read_bucket_records(bucket_bytes) == iter_bucket_records(FileLines(bucket_bytes))

\* --------------------------------------------------------------- adjacency

\* BuildRecord with the destinations counted as a list would count them: a
\* second copy of an edge raises the measured out-degree.
BuildRecordCountsCopies(st, rec) ==
    LET key      == <<rec[3], rec[4]>>
        adj      == DictGet(st.edges, key, <<>>)
        old      == DictGet(adj, rec[1], {})
        new      == old \cup {rec[2]}
        new_size == Cardinality(new) + (IF rec[2] \in old THEN 1 ELSE 0)
        cur      == DictGet(st.max_out_degree, key, 0)
    IN [edges |-> DictSet(st.edges, key, DictSet(adj, rec[1], new)),
        max_out_degree |->
            IF new_size > cur
            THEN DictSet(st.max_out_degree, key, new_size)
            ELSE st.max_out_degree]

\* BuildRecord with the out-degree of the group overwritten by the size of the
\* set that just grew (the comparison with the current maximum left out).
BuildRecordLastDegree(st, rec) ==
    LET key      == <<rec[3], rec[4]>>
        adj      == DictGet(st.edges, key, <<>>)
        old      == DictGet(adj, rec[1], {})
        new      == old \cup {rec[2]}
    IN [edges |-> DictSet(st.edges, key, DictSet(adj, rec[1], new)),
        max_out_degree |->
            IF Cardinality(new) > Cardinality(old)
            THEN DictSet(st.max_out_degree, key, Cardinality(new))
            ELSE st.max_out_degree]

\* BuildRecord with the group keyed by the claim id alone.
BuildRecordByClaim(st, rec) ==
    LET key      == <<rec[3], <<>>>>
        adj      == DictGet(st.edges, key, <<>>)
        old      == DictGet(adj, rec[1], {})
        new      == old \cup {rec[2]}
        cur      == DictGet(st.max_out_degree, key, 0)
    IN [edges |-> DictSet(st.edges, key, DictSet(adj, rec[1], new)),
        max_out_degree |->
            IF Cardinality(new) > Cardinality(old) /\ Cardinality(new) > cur
            THEN DictSet(st.max_out_degree, key, Cardinality(new))
            ELSE st.max_out_degree]

\* BuildRecord with the out-degree of the group raised by every new edge of
\* the group, whatever its source.
BuildRecordCountsEdges(st, rec) ==
    LET key      == <<rec[3], rec[4]>>
        adj      == DictGet(st.edges, key, <<>>)
        old      == DictGet(adj, rec[1], {})
        new      == old \cup {rec[2]}
        cur      == DictGet(st.max_out_degree, key, 0)
    IN [edges |-> DictSet(st.edges, key, DictSet(adj, rec[1], new)),
        max_out_degree |->
            IF Cardinality(new) > Cardinality(old)
            THEN DictSet(st.max_out_degree, key, cur + 1)
            ELSE st.max_out_degree]

\* One iteration of the loop of build_grouped_adjacency (build.py:26-37) on
\* the state st = [edges, max_out_degree].
BuildRecord(st, rec) ==
    LET key      == <<rec[3], rec[4]>>
        adj      == DictGet(st.edges, key, <<>>)
        old      == DictGet(adj, rec[1], {})
        old_size == Cardinality(old)
        new      == old \cup {rec[2]}
        new_size == Cardinality(new)
        cur      == DictGet(st.max_out_degree, key, 0)
    IN [edges |-> DictSet(st.edges, key, DictSet(adj, rec[1], new)),
        max_out_degree |->
            IF new_size > old_size /\ new_size > cur
            THEN DictSet(st.max_out_degree, key, new_size)
            ELSE st.max_out_degree]

RECURSIVE BuildLoop(_, _)
BuildLoop(st, records) ==
    IF records = <<>> THEN st
    ELSE BuildLoop(BuildRecord(st, Head(records)), Tail(records))

build_grouped_adjacency(records) ==
    BuildLoop([edges |-> <<>>, max_out_degree |-> <<>>], records)

\* ------------------------------------------------------------ cycle search

\* cycle.py:32-35: next_node[src] = next(iter(dests)) for every non-empty dests.
RECURSIVE NextNode(_, _)
NextNode(adj, ord) ==
    IF adj = <<>> THEN <<>>
    ELSE LET src   == Head(adj)[1]
             dests == Head(adj)[2]
             rest  == NextNode(Tail(adj), ord)
         IN IF dests # {}
            THEN <<<<src, SetIter(dests, ord)[1]>>>> \o rest
            ELSE rest

\* Walk with the cycle length taken to be the whole length of the walk, the
\* tail that leads into the cycle included (pos instead of
\* pos - path_order[current]).
RECURSIVE WalkCountsTail(_, _, _, _)
WalkCountsTail(next_node, globally_visited, path_order, current) ==
    IF current = NoNode THEN [cycle_len |-> 0, path_order |-> path_order]
    ELSE IF current \in globally_visited
    THEN [cycle_len |-> 0, path_order |-> path_order]
    ELSE IF current \in Range(path_order)
    THEN [cycle_len |-> Len(path_order), path_order |-> path_order]
    ELSE WalkCountsTail(next_node, globally_visited, Append(path_order, current),
                        DictGet(next_node, current, NoNode))

\* cycle.py:58-71, the while loop of one walk.  path_order is the sequence of
\* the nodes in the order they were given positions 0, 1, ...; the result is
\* [cycle_len, path_order] where cycle_len is 0 when the walk closed no cycle.
RECURSIVE Walk(_, _, _, _)
Walk(next_node, globally_visited, path_order, current) ==
    IF current = NoNode THEN [cycle_len |-> 0, path_order |-> path_order]
    ELSE IF current \in globally_visited
    THEN [cycle_len |-> 0, path_order |-> path_order]
    ELSE IF current \in Range(path_order)
    THEN LET pos == Len(path_order)
             at  == (CHOOSE i \in 1..Len(path_order) : path_order[i] = current) - 1
         IN [cycle_len |-> pos - at, path_order |-> path_order]
    ELSE Walk(next_node, globally_visited, Append(path_order, current),
              DictGet(next_node, current, NoNode))

\* The loop over the start nodes with every closed walk taken as a cycle,
\* whatever its length.
RECURSIVE FunctionalLoopAnyLength(_, _, _, _)
FunctionalLoopAnyLength(next_node, starts, globally_visited, longest) ==
    IF starts = <<>> THEN longest
    ELSE IF Head(starts) \in globally_visited
    THEN FunctionalLoopAnyLength(next_node, Tail(starts), globally_visited, longest)
    ELSE LET w == Walk(next_node, globally_visited, <<>>, Head(starts)) IN
         FunctionalLoopAnyLength(next_node, Tail(starts),
                        globally_visited \cup Range(w.path_order),
                        IF w.cycle_len > longest THEN w.cycle_len ELSE longest)

\* cycle.py:49-73, the loop over the start nodes.
RECURSIVE FunctionalLoop(_, _, _, _)
FunctionalLoop(next_node, starts, globally_visited, longest) ==
    IF starts = <<>> THEN longest
    ELSE IF Head(starts) \in globally_visited
    THEN FunctionalLoop(next_node, Tail(starts), globally_visited, longest)
    ELSE LET w == Walk(next_node, globally_visited, <<>>, Head(starts)) IN
         FunctionalLoop(next_node, Tail(starts),
                        globally_visited \cup Range(w.path_order),
                        IF w.cycle_len >= 2 /\ w.cycle_len > longest
                        THEN w.cycle_len ELSE longest)

find_cycle_functional(adj, ord) ==
    LET next_node == NextNode(adj, ord)
        all_nodes == {next_node[i][1] : i \in 1..Len(next_node)}
                        \cup {next_node[i][2] : i \in 1..Len(next_node)}
    IN IF next_node = <<>> THEN 0
       ELSE FunctionalLoop(next_node, SetIter(all_nodes, ord), {}, 0)

\* sorted(nodes) on bytes.
RECURSIVE SortBytes(_)
SortBytes(S) ==
    IF S = {} THEN <<>>
    ELSE LET m == CHOOSE x \in S : \A y \in S \ {x} : BytesLess(x, y)
         IN <<m>> \o SortBytes(S \ {m})

\* idx_map.get(node): the position in nodes_sorted counted from 0, or NoIndex.
IdxGet(nodes_sorted, node) ==
    IF node \in Range(nodes_sorted)
    THEN (CHOOSE i \in 1..Len(nodes_sorted) : nodes_sorted[i] = node) - 1
    ELSE NoIndex

\* cycle.py:98-114.  dfs is the call, DfsNeighbors the for loop over the
\* neighbours still to visit; both return the value of the nonlocal `longest`.
RECURSIVE dfs(_, _, _, _, _, _, _, _, _)
RECURSIVE DfsNeighbors(_, _, _, _, _, _, _, _, _)
DfsNeighbors(neighbors, adj, nodes_sorted, ord, start, start_idx, path, depth, longest) ==
    IF neighbors = <<>> THEN longest
    ELSE LET neighbor == Head(neighbors)
             neighbor_idx == IdxGet(nodes_sorted, neighbor)
             after ==
                IF neighbor = start /\ depth >= 1
                THEN (IF depth + 1 > longest THEN depth + 1 ELSE longest)
                ELSE IF neighbor \notin path
                THEN (IF neighbor_idx # NoIndex /\ neighbor_idx >= start_idx
                      THEN dfs(neighbor, adj, nodes_sorted, ord, start, start_idx,
                               path \cup {neighbor}, depth + 1, longest)
                      ELSE longest)
                ELSE longest
         IN DfsNeighbors(Tail(neighbors), adj, nodes_sorted, ord, start, start_idx,
                         path, depth, after)

dfs(node, adj, nodes_sorted, ord, start, start_idx, path, depth, longest) ==
    DfsNeighbors(SetIter(DictGet(adj, node, {}), ord), adj, nodes_sorted, ord,
                 start, start_idx, path, depth, longest)

\* cycle.py:117-119, the loop over the start nodes (i counts from 1 here).
RECURSIVE DfsStarts(_, _, _, _, _)
DfsStarts(i, adj, nodes_sorted, ord, longest) ==
    IF i > Len(nodes_sorted) THEN longest
    ELSE DfsStarts(i + 1, adj, nodes_sorted, ord,
                   dfs(nodes_sorted[i], adj, nodes_sorted, ord, nodes_sorted[i],
                       i - 1, {nodes_sorted[i]}, 0, longest))

find_cycle_dfs(adj, ord) ==
    LET nodes_sorted == SortBytes(Range(DictKeys(adj)))
    IN IF nodes_sorted = <<>> THEN 0
       ELSE DfsStarts(1, adj, nodes_sorted, ord, 0)

find_longest_cycle(adj, is_functional, ord) ==
    IF adj = <<>> THEN 0
    ELSE IF is_functional THEN find_cycle_functional(adj, ord)
    ELSE find_cycle_dfs(adj, ord)

\* The loop over edges.items() with the running best replaced on a tie too
\* (>= for >).
RECURSIVE BestOfGroupsLastWins(_, _, _, _)
BestOfGroupsLastWins(edges, max_out_degree, ord, best_result) ==
    IF edges = <<>> THEN best_result
    ELSE LET key == Head(edges)[1]
             adj == Head(edges)[2]
             is_functional == DictGet(max_out_degree, key, 0) <= 1
             cycle_len == find_longest_cycle(adj, is_functional, ord)
         IN BestOfGroupsLastWins(Tail(edges), max_out_degree, ord,
                IF cycle_len > 0 /\ (best_result = NoResult
                                       \/ cycle_len >= best_result.cycle_length)
                THEN [claim_id |-> key[1], status_code |-> key[2],
                      cycle_length |-> cycle_len]
                ELSE best_result)

\* process_bucket.py:20-28, the loop over edges.items().
RECURSIVE BestOfGroups(_, _, _, _)
BestOfGroups(edges, max_out_degree, ord, best_result) ==
    IF edges = <<>> THEN best_result
    ELSE LET key == Head(edges)[1]
             adj == Head(edges)[2]
             is_functional == DictGet(max_out_degree, key, 0) <= 1
             cycle_len == find_longest_cycle(adj, is_functional, ord)
         IN BestOfGroups(Tail(edges), max_out_degree, ord,
                IF cycle_len > 0 /\ (best_result = NoResult
                                       \/ cycle_len > best_result.cycle_length)
                THEN [claim_id |-> key[1], status_code |-> key[2],
                      cycle_length |-> cycle_len]
                ELSE best_result)

\* process_bucket(bucket_path) on the bytes of the bucket file.
process_bucket(bucket_bytes, ord) ==
    LET built == build_grouped_adjacency(read_bucket_records(bucket_bytes))
    IN BestOfGroups(built.edges, built.max_out_degree, ord, NoResult)

\* --------------------------------------------------------- LRU file cache
\* The scratch directory is the function disk: bucket_idx -> bytes of
\* bucket_NNNN.bin, NoFile while the file does not exist.  The cache is the
\* OrderedDict _cache as the sequence of its items <<bucket_idx, buf>>, oldest
\* first; buf holds the bytes written to the handle and not yet flushed (the
\* handles are buffered with BUFFER_SIZE = 1 MiB, far above what is written
\* here, so a handle flushes when it is closed).

NoFile == <<-1>>

\* A close whose flush replaces the content of the file.
CloseHandleOverwriting(d, item) == [d EXCEPT ![item[1]] = item[2]]

\* handle.close(): flush the buffer to the end of the file.
CloseHandle(d, item) == [d EXCEPT ![item[1]] = @ \o item[2]]

\* open(path, "wb"): the file is created or emptied.
OpenTruncate(d, bucket_idx) == [d EXCEPT ![bucket_idx] = <<>>]

\* open(path, "ab"): create the file when it is missing, keep its content
\* otherwise.
OpenAppend(d, bucket_idx) ==
    IF bucket_idx \notin DOMAIN d THEN (bucket_idx :> <<>>) @@ d
    ELSE IF d[bucket_idx] = NoFile THEN [d EXCEPT ![bucket_idx] = <<>>] ELSE d

\* The eviction loop entered only above the capacity (> for >=).
AboveCapacity(c, max_handles) == Len(c) > max_handles

\* cache.py:27, the condition of the eviction loop.
AtCapacity(c, max_handles) == Len(c) >= max_handles

\* cache.py:27-29, the eviction loop, on st = [cache, disk].
RECURSIVE Evict(_, _)
Evict(st, max_handles) ==
    IF Len(st.cache) >= max_handles /\ st.cache # <<>>   \* max_handles >= 1 here
    THEN Evict([cache |-> Tail(st.cache),
                disk  |-> CloseHandle(st.disk, Head(st.cache))], max_handles)
    ELSE st

\* A hit that leaves the order of the handles as it was (first in, first out).
KeepOrder(c, k) == c

\* OrderedDict.move_to_end(key)
MoveToEnd(c, k) ==
    SelectSeq(c, LAMBDA it : it[1] # k) \o SelectSeq(c, LAMBDA it : it[1] = k)

\* LRUFileCache.write(bucket_idx, data) on st = [cache, disk].
CacheWrite(st, max_handles, bucket_idx, data) ==
    LET opened ==
            IF DictHas(st.cache, bucket_idx)
            THEN [cache |-> MoveToEnd(st.cache, bucket_idx), disk |-> st.disk]
            ELSE LET ev == Evict(st, max_handles) IN
                 [cache |-> Append(ev.cache, <<bucket_idx, <<>>>>),
                  disk  |-> OpenAppend(ev.disk, bucket_idx)]
    IN [cache |-> DictSet(opened.cache, bucket_idx,
                          DictGet(opened.cache, bucket_idx, <<>>) \o data),
        disk  |-> opened.disk]

\* close_all() that drops the handles without flushing what they buffer.
CacheCloseAllUnflushed(st) == [cache |-> <<>>, disk |-> st.disk]

\* LRUFileCache.close_all() on st = [cache, disk].
RECURSIVE CacheCloseAll(_)
CacheCloseAll(st) ==
    IF st.cache = <<>> THEN st
    ELSE CacheCloseAll([cache |-> Tail(st.cache),
                        disk  |-> CloseHandle(st.disk, Head(st.cache))])

\* LRUFileCache.write(bucket_idx, data) when one of its calls raises, on
\* st = [cache, disk]: what the cache and the files are as the error leaves
\* write.  `at` is the call that raises: "close" the old_handle.close() of the
\* eviction loop (the item is popped already and the file object is closed,
\* what it buffered is lost), "open" the open of the bucket file after the
\* eviction, "write" handle.write(data).
CanRaiseAt(c, max_handles, bucket_idx, at) ==
    IF DictHas(c, bucket_idx) THEN at = "write"
    ELSE at = "close" => AtCapacity(c, max_handles) /\ c # <<>>

CacheWriteRaising(st, max_handles, bucket_idx, at) ==
    IF DictHas(st.cache, bucket_idx)
    THEN [cache |-> MoveToEnd(st.cache, bucket_idx), disk |-> st.disk]
    ELSE IF at = "close"
    THEN [cache |-> Tail(st.cache), disk |-> st.disk]
    ELSE LET ev == Evict(st, max_handles) IN
         IF at = "open" THEN ev
         ELSE [cache |-> Append(ev.cache, <<bucket_idx, <<>>>>),
               disk  |-> OpenAppend(ev.disk, bucket_idx)]

\* LRUFileCache.close_all() on st = [cache, disk] when the close of the k-th
\* handle raises (k = 0: no close raises): the handles before it are flushed
\* and closed, the k-th file object is closed and what it buffered is lost,
\* the loop is left, so the handles after it stay open, and _cache.clear() is
\* not reached.  open is the set of the buckets whose handle is open after
\* the call.
CloseAllRaising(st, k) ==
    IF k = 0
    THEN LET done == CacheCloseAll(st)
         IN [cache |-> done.cache, disk |-> done.disk, open |-> {}]
    ELSE LET n == Len(st.cache)
             before == CacheCloseAll([cache |-> SubSeq(st.cache, 1, k - 1),
                                      disk  |-> st.disk])
         IN [cache |-> [i \in 1..n |-> IF i <= k THEN <<st.cache[i][1], <<>>>>
                                        ELSE st.cache[i]],
             disk  |-> before.disk,
             open  |-> {st.cache[i][1] : i \in (k + 1)..n}]

\* ------------------------------------------------------- scratch directory

\* A removal failure that leaves solve as an error of its own.
RmtreeRaising(d, removed, outcome) ==
    [tmp_dir |-> IF removed THEN "removed" ELSE "left",
     disk    |-> IF removed THEN [i \in DOMAIN d |-> NoFile] ELSE d,
     ret     |-> IF removed THEN outcome ELSE <<"raise", "RmtreeError">>]

\* solve.py:145-146, the finally of solve: shutil.rmtree(tmp_dir,
\* ignore_errors=True) on the files d, then the outcome (a return value or an
\* exception on its way out) goes on.  `removed` tells whether the operating
\* system removed the tree; a failure is swallowed.
Rmtree(d, removed, outcome) ==
    [tmp_dir |-> IF removed THEN "removed" ELSE "left",
     disk    |-> IF removed THEN [i \in DOMAIN d |-> NoFile] ELSE d,
     ret     |-> outcome]

\* --------------------------------------------------------------- partition

\* The bucket chosen from the claim id alone.
BucketIndexOfClaim(claim_bytes, status_bytes, num_buckets) ==
    BitAnd(crc32(claim_bytes), num_buckets - 1)

\* partition.py:46
BucketIndex(claim_bytes, status_bytes, num_buckets) ==
    BitAnd(crc32(claim_bytes \o <<PIPE>> \o status_bytes), num_buckets - 1)

\* partition.py:30-49, the body of the loop over the input lines, on
\* st = [stats, cache, disk, writes].  writes is the history of the calls of
\* cache.write, <<bucket_idx, data>> each.
PartitionLine(st, raw_line, num_buckets, max_handles) ==
    LET read  == [st.stats EXCEPT !.lines_read = @ + 1]
        line  == rstrip(raw_line)
        parts == split(line, PIPE, 3)
    IN IF line = <<>>
       THEN [st EXCEPT !.stats = [read EXCEPT !.empty_lines = @ + 1]]
       ELSE IF Len(parts) < 4
       THEN [st EXCEPT !.stats = [read EXCEPT !.malformed_lines = @ + 1]]
       ELSE LET bucket_idx == BucketIndex(parts[3], parts[4], num_buckets)
                w == CacheWrite([cache |-> st.cache, disk |-> st.disk],
                                max_handles, bucket_idx, line \o <<LF>>)
            IN [stats  |-> [read EXCEPT !.lines_written = @ + 1],
                cache  |-> w.cache,
                disk   |-> w.disk,
                writes |-> Append(st.writes, <<bucket_idx, line \o <<LF>>>>)]

\* partition.py:55-60: the buckets whose file exists and is not empty, in
\* index order.
NonEmpty(d, num_buckets) ==
    SelectSeq([k \in 1..num_buckets |-> k - 1],
              LAMBDA i : d[i] # NoFile /\ Len(d[i]) > 0)

\* ------------------------------------------------------------------ inputs
\* Raw lines of input files: node names A, B, C; claim ids x, y; status codes
\* 1, 2.  crc32 sends the group keys x|1, x|2, y|1 to the buckets 2, 0, 1 of
\* four and to the buckets 0, 0, 1 of two.
MkLine(s, d, c, t, term) == s \o <<PIPE>> \o d \o <<PIPE>> \o c \o <<PIPE>> \o t \o term

\* Input of the whole solver: group (x,1) can carry a 2-cycle, a triangle and
\* a node of out-degree two, group (x,2) a 2-cycle of its own.
InputLines ==
    { MkLine(<<65>>, <<66>>, <<120>>, <<49>>, <<LF>>),
      MkLine(<<66>>, <<65>>, <<120>>, <<49>>, <<LF>>),
      MkLine(<<66>>, <<67>>, <<120>>, <<49>>, <<LF>>),
      MkLine(<<67>>, <<65>>, <<120>>, <<49>>, <<LF>>),
      MkLine(<<65>>, <<66>>, <<120>>, <<50>>, <<LF>>),
      MkLine(<<66>>, <<65>>, <<120>>, <<50>>, <<LF>>) }

\* Input of the partition pass alone: three groups in three buckets, LF, CRLF
\* and CR CR LF terminators, an empty line, a line of CR LF only, lines with
\* one and three fields, a status code that contains '|', and a line without
\* terminator (which a file can only end with).
RawLines ==
    { MkLine(<<65>>, <<66>>, <<120>>, <<49>>, <<LF>>),
      MkLine(<<66>>, <<65>>, <<120>>, <<49>>, <<CR, LF>>),
      MkLine(<<65>>, <<66>>, <<120>>, <<50>>, <<LF>>),
      MkLine(<<66>>, <<65>>, <<120>>, <<50>>, <<CR, CR, LF>>),
      MkLine(<<67>>, <<65>>, <<121>>, <<49>>, <<LF>>),
      MkLine(<<65>>, <<67>>, <<121>>, <<49>>, <<>>),
      MkLine(<<65>>, <<66>>, <<120>>, <<49, PIPE, 50>>, <<LF>>),
      <<LF>>,
      <<CR, LF>>,
      <<32, 32, LF>>,
      <<65, PIPE, 66, PIPE, 120, LF>> }

\* Lines of one bucket file: in group (x,1) every edge between A, B, C that
\* is needed for 2-cycles, a triangle, branching and a self-loop; the edges of
\* a 2-cycle spread over (x,1), (x,2) and (y,1); a line with three fields.
BucketLines ==
    { MkLine(<<65>>, <<66>>, <<120>>, <<49>>, <<LF>>),
      MkLine(<<66>>, <<65>>, <<120>>, <<49>>, <<LF>>),
      MkLine(<<66>>, <<67>>, <<120>>, <<49>>, <<LF>>),
      MkLine(<<67>>, <<65>>, <<120>>, <<49>>, <<LF>>),
      MkLine(<<65>>, <<65>>, <<120>>, <<49>>, <<LF>>),
      MkLine(<<65>>, <<66>>, <<120>>, <<50>>, <<LF>>),
      MkLine(<<66>>, <<65>>, <<120>>, <<50>>, <<LF>>),
      MkLine(<<66>>, <<65>>, <<121>>, <<49>>, <<LF>>),
      <<65, PIPE, 66, PIPE, 120, LF>> }

\* num_buckets values, all powers of two.
BucketCounts == {1, 2, 4}
SolveBucketCounts == {1, 4}

Policies == {"serial", "threads", "processes"}

\* solver/solve.py:21
PROCESS_POOL_CHUNKSIZE == 16

\* ------------------------------------------------------------------- state

VARIABLES
    pc,            \* where the program is: "partition", "partitioned", "serial",
                   \* "pool", "done" in solve; "cache", "closed" for a bare cache
    num_buckets,   \* the bucket count B
    max_handles,   \* LRUFileCache._max_handles
    input,         \* the raw lines `for line in handle` has yielded so far
    stats,         \* PartitionStats
    cache,         \* LRUFileCache._cache
    disk,          \* the bucket files of the scratch directory
    writes,        \* history of the cache.write calls: <<bucket_idx, data>>
    tmp_dir,       \* the scratch directory: "none" before mkdtemp, "exists",
                   \* "removed" by rmtree, "left" when rmtree failed
    bucket_paths,  \* the list partition_to_buckets returned (bucket indices)
    executor,      \* the policy get_executor_class selected
    tasks,         \* the work items of the pool: [lo, hi, status]
    results,       \* results[i]: what process_bucket returned for bucket_paths[i]
    taken,         \* the indices of the results process_results has taken from
                   \* the stream, in the order it took them
    best_result,   \* the running best of process_results
    ret,           \* the value solve returned, or the exception in flight
    bucket_lines,  \* one bucket processor: the raw lines read from its file so far
    built,         \* one bucket processor: [edges, max_out_degree] built so far
    open_files,    \* the bucket indices of the file objects that are open
    frame,         \* the locals of a running LRUFileCache.write call
    rc_executor,   \* os.environ.get("RC_EXECUTOR", ""), as characters
    gil_enabled,   \* what is_gil_enabled() returns
    input_exists,  \* whether the input path names a readable file
    io_errors,     \* whether the operating system may fail an I/O call
    stdout,        \* the lines main_solve has printed
    adj,           \* one cycle search: the adjacency map, source -> set of dests
    is_functional, \* one cycle search: the flag given to find_longest_cycle
    iter_order,    \* one cycle search: the order in which this run iterates sets
    longest,       \* one cycle search: the local `longest`
    starts,        \* one cycle search: the start nodes the for loop has yet to take
    globally_visited, \* find_cycle_functional: the set globally_visited
    path_order,    \* find_cycle_functional: path_order, the nodes by position
    current,       \* find_cycle_functional: the node the walk stands on
    stack,         \* find_cycle_dfs: the calls of dfs in progress, outermost
                   \* first: [node, neighbors (yet to iterate), depth]
    path,          \* find_cycle_dfs: the set `path`
    added,         \* history: the nodes given a position in a path_order, in order
    recorded,      \* history: the cycles that reached the branch of
                   \* cycle.py:103-107, as [start_idx, cycle, cycle_len]
    nodes_sorted   \* find_cycle_dfs: the sorted keys of adj

vars == <<pc, num_buckets, max_handles, input, stats, cache, disk, writes, tmp_dir,
          bucket_paths, executor, tasks, results, taken, best_result, ret,
          bucket_lines, built, open_files, frame, rc_executor, gil_enabled,
          input_exists, io_errors, stdout, adj, is_functional, iter_order,
          longest, starts, globally_visited, path_order, current, stack, path,
          added, recorded, nodes_sorted>>

\* The variables of the scheduler, of the partition pass and of one bucket
\* processor.
solveVars  == <<tmp_dir, bucket_paths, executor, tasks, results, taken,
                best_result, ret>>
bucketVars == <<bucket_lines, built>>

\* What the caller and the environment give, and the locals of a write call.
envVars    == <<rc_executor, gil_enabled, input_exists, io_errors, stdout>>

\* The locals of one cycle search and its history.
searchVars == <<adj, is_functional, iter_order, longest, starts, globally_visited,
                path_order, current, stack, path, added, recorded, nodes_sorted>>

\* No cycle search is followed step by step.
NoSearch ==
    /\ adj = <<>>
    /\ is_functional = TRUE
    /\ iter_order = <<>>
    /\ longest = 0
    /\ starts = <<>>
    /\ globally_visited = {}
    /\ path_order = <<>>
    /\ current = NoNode
    /\ stack = <<>>
    /\ path = {}
    /\ added = <<>>
    /\ recorded = <<>>
    /\ nodes_sorted = <<>>

\* No write call is running.
NoFrame == [bucket_idx |-> -1, data |-> <<>>, old_handle |-> <<>>]

\* ret while solve has not returned, and solve's None.
Running    == <<"running">>
ReturnNone == <<>>

\* The state once solve has validated num_buckets and created the scratch
\* directory (solve.py:61), with the partition pass about to read its first
\* line.
Start(first, counts, capacities) ==
    /\ pc = first
    /\ num_buckets \in counts
    /\ max_handles \in capacities
    /\ input = <<>>
    /\ stats = [lines_read |-> 0, empty_lines |-> 0, malformed_lines |-> 0,
                lines_written |-> 0]
    /\ cache = <<>>
    /\ disk = [i \in 0..(num_buckets - 1) |-> NoFile]
    /\ writes = <<>>
    /\ tmp_dir = "exists"
    /\ bucket_paths = <<>>
    /\ executor = "unset"
    /\ tasks = <<>>
    /\ results = <<>>
    /\ taken = <<>>
    /\ best_result = NoResult
    /\ ret = Running
    /\ bucket_lines = <<>>
    /\ built = [edges |-> <<>>, max_out_degree |-> <<>>]
    /\ open_files = {}
    /\ frame = NoFrame

\* What the environment is at the call: the value of RC_EXECUTOR, the GIL,
\* whether the input file is there, whether I/O calls may fail; nothing
\* printed yet.
Env(values, gils, exists, faults) ==
    /\ rc_executor \in values
    /\ gil_enabled \in gils
    /\ input_exists \in exists
    /\ io_errors \in faults
    /\ stdout = <<>>

Unset == <<>>

\* Whether a removal of the scratch directory may succeed or fail.
Removals == IF io_errors THEN BOOLEAN ELSE {TRUE}

Init == Start("partition", SolveBucketCounts, {MaxOpenHandles})
            /\ Env({Unset}, {TRUE}, {TRUE}, {FALSE}) /\ NoSearch

\* -------------------------------------------------------- execution policy
\* Strings are sequences of code points.

\* str.lower(): the ASCII capitals go to their small letters; of the other
\* characters KELVIN SIGN goes to k and LATIN CAPITAL LETTER I WITH DOT ABOVE
\* to i followed by COMBINING DOT ABOVE; the characters used here that have no
\* lowercase mapping stay.
LowerChar(c) ==
    IF c \in 65..90 THEN <<c + 32>>
    ELSE IF c = 8490 THEN <<107>>
    ELSE IF c = 304 THEN <<105, 775>>
    ELSE <<c>>

\* The string left as it is.
NotLowered(str) == str

lower(str) == Concat([i \in 1..Len(str) |-> LowerChar(str[i])])

StrThreads   == <<116, 104, 114, 101, 97, 100, 115>>
StrProcesses == <<112, 114, 111, 99, 101, 115, 115, 101, 115>>
StrSerial    == <<115, 101, 114, 105, 97, 108>>

\* execution.py:21-42; the classes by their names, None as "None".
get_executor_class(rc, gil) ==
    LET executor_override == lower(rc)
    IN IF executor_override = StrThreads THEN "ThreadPoolExecutor"
       ELSE IF executor_override = StrProcesses THEN "ProcessPoolExecutor"
       ELSE IF executor_override = StrSerial THEN "None"
       ELSE IF gil THEN "ProcessPoolExecutor"
       ELSE "ThreadPoolExecutor"

\* execution.py:45-51
describe_executor(executor_class) ==
    IF executor_class = "None" THEN "serial"
    ELSE IF executor_class = "ThreadPoolExecutor" THEN "threads"
    ELSE "processes"

\* A word with each of its letters in either case.
CaseVariants(word) ==
    {[i \in 1..Len(word) |-> IF i \in S THEN word[i] - 32 ELSE word[i]] :
        S \in SUBSET (1..Len(word))}

\* Values of RC_EXECUTOR: unset (read as ""), the three names in every mix of
\* cases, and values that are none of them: "auto", "thread", "serial " with a
\* trailing space, " serial", "SER\u0130AL", "\u212Aernel", "threads,serial".
EnvValues ==
    {Unset} \cup CaseVariants(StrThreads) \cup CaseVariants(StrProcesses)
        \cup CaseVariants(StrSerial)
        \cup { <<97, 117, 116, 111>>,
               <<116, 104, 114, 101, 97, 100>>,
               <<115, 101, 114, 105, 97, 108, 32>>,
               <<32, 115, 101, 114, 105, 97, 108>>,
               <<83, 69, 82, 304, 65, 76>>,
               <<8490, 101, 114, 110, 101, 108>>,
               StrThreads \o <<44>> \o StrSerial }

\* ----------------------------------------------------------------- actions

\* solve.py:46-48: the policy is selected from the environment.
SelectExecutor ==
    /\ pc = "select"
    /\ executor' = describe_executor(get_executor_class(rc_executor, gil_enabled))
    /\ pc' = "mkdtemp"
    /\ UNCHANGED <<num_buckets, max_handles, envVars, searchVars, frame, open_files, input, stats,
                   cache, disk, writes, tmp_dir, bucket_paths, tasks, results, taken,
                   best_result, ret, bucketVars>>

\* A file yields a line without LF only as its last line.
Terminated(lines) ==
    IF lines = <<>> THEN TRUE
    ELSE LET last == lines[Len(lines)] IN last[Len(last)] = LF

\* One iteration of `for line in handle` (partition.py:29-49) on a file made
\* of at most `most` lines of `pool`.
ReadFrom(pool, most) ==
    /\ pc = "partition"
    /\ Len(input) < most
    /\ Terminated(input)
    /\ \E raw_line \in pool :
          LET st == PartitionLine([stats |-> stats, cache |-> cache, disk |-> disk,
                                   writes |-> writes],
                                  raw_line, num_buckets, max_handles)
          IN /\ input' = Append(input, raw_line)
             /\ stats' = st.stats
             /\ cache' = st.cache
             /\ disk' = st.disk
             /\ writes' = st.writes
    /\ open_files' = Range(DictKeys(cache'))
    /\ UNCHANGED <<pc, num_buckets, max_handles, envVars, searchVars, frame, solveVars,
                   bucketVars>>

ReadLine == ReadFrom(InputLines, MaxLines)

\* End of the input: close_all() and the listing of the non-empty bucket
\* files (partition.py:51-61).
PartitionReturn ==
    /\ pc = "partition"
    /\ LET st == CacheCloseAll([cache |-> cache, disk |-> disk])
       IN /\ cache' = st.cache
          /\ disk' = st.disk
          /\ bucket_paths' = NonEmpty(st.disk, num_buckets)
    /\ pc' = "partitioned"
    /\ open_files' = Range(DictKeys(cache'))
    /\ UNCHANGED <<num_buckets, max_handles, envVars, searchVars, frame, input, stats, writes,
                   tmp_dir, executor,
                   tasks, results, taken, best_result, ret, bucketVars>>

\* solve.py:80-83 with the finally of solve.py:145-146: no bucket, no cycle.
ReturnEmpty ==
    /\ pc = "partitioned"
    /\ bucket_paths = <<>>
    /\ \E removed \in Removals :
          LET out == Rmtree(disk, removed, ReturnNone)
          IN ret' = out.ret /\ tmp_dir' = out.tmp_dir /\ disk' = out.disk
    /\ pc' = "done"
    /\ UNCHANGED <<num_buckets, max_handles, envVars, searchVars, frame, open_files, input,
                   stats, cache, writes,
                   bucket_paths, executor, tasks, results, taken, best_result,
                   bucketVars>>

\* The work items executor.map submits: one per bucket path for the thread
\* pool, one per chunk of PROCESS_POOL_CHUNKSIZE paths for the process pool.
Chunks(n, size) ==
    [c \in 1..((n + size - 1) \div size) |->
        [lo |-> (c - 1) * size + 1,
         hi |-> IF c * size < n THEN c * size ELSE n,
         status |-> "pending"]]

\* solve.py:105-117: dispatch under the policy get_executor_class selected.
\* The policy depends on the environment alone and nothing before this point
\* uses it, so a run that starts after the selection draws it here.
Dispatch ==
    /\ pc = "partitioned"
    /\ bucket_paths # <<>>
    /\ \E policy \in (IF executor = "unset" THEN Policies ELSE {executor}) :
          /\ executor' = policy
          /\ pc' = IF policy = "serial" THEN "serial" ELSE "pool"
          /\ tasks' = IF policy = "threads" THEN Chunks(Len(bucket_paths), 1)
                      ELSE IF policy = "processes"
                      THEN Chunks(Len(bucket_paths), PROCESS_POOL_CHUNKSIZE)
                      ELSE <<>>
    /\ results' = [i \in 1..Len(bucket_paths) |-> NoResult]
    /\ UNCHANGED <<num_buckets, max_handles, envVars, searchVars, frame, open_files, input,
                   stats, cache, disk, writes,
                   tmp_dir, bucket_paths, taken, best_result, ret, bucketVars>>

\* One iteration of process_results with the running best replaced on a tie
\* too (>= for >).
ReduceLastWins(best, result) ==
    IF result # NoResult
       /\ (best = NoResult \/ result.cycle_length >= best.cycle_length)
    THEN result ELSE best

\* solve.py:96-100, one iteration of process_results.
Reduce(best, result) ==
    IF result # NoResult
       /\ (best = NoResult \/ result.cycle_length > best.cycle_length)
    THEN result ELSE best

\* The orders in which a call of process_bucket may iterate its sets.
NodesOf(bucket_bytes) ==
    LET recs == read_bucket_records(bucket_bytes)
    IN {recs[i][1] : i \in 1..Len(recs)} \cup {recs[i][2] : i \in 1..Len(recs)}

\* Serial policy (solve.py:106-107): the generator runs process_bucket on the
\* next path and process_results takes its result.
SerialStep ==
    /\ pc = "serial"
    /\ Len(taken) < Len(bucket_paths)
    /\ LET i == Len(taken) + 1
           bytes == disk[bucket_paths[i]]
       IN \E ord \in Perms(NodesOf(bytes)) :
             LET r == process_bucket(bytes, ord)
             IN /\ results' = [results EXCEPT ![i] = r]
                /\ best_result' = Reduce(best_result, r)
                /\ taken' = Append(taken, i)
    /\ UNCHANGED <<pc, num_buckets, max_handles, envVars, searchVars, frame, open_files, input,
                   stats, cache, disk, writes,
                   tmp_dir, bucket_paths, executor, tasks, ret, bucketVars>>

NumRunning == Cardinality({t \in 1..Len(tasks) : tasks[t].status = "running"})

\* A free worker of the pool takes the oldest pending work item.
StartTask ==
    /\ pc = "pool"
    /\ NumRunning < MaxWorkers
    /\ \E t \in 1..Len(tasks) :
          /\ tasks[t].status = "pending"
          /\ \A u \in 1..(t - 1) : tasks[u].status # "pending"
          /\ tasks' = [tasks EXCEPT ![t].status = "running"]
    /\ UNCHANGED <<pc, num_buckets, max_handles, envVars, searchVars, frame, open_files, input,
                   stats, cache, disk, writes,
                   tmp_dir, bucket_paths, executor, results, taken, best_result,
                   ret, bucketVars>>

\* A worker finishes its work item: process_bucket on each of its paths.
FinishTask ==
    /\ pc \in {"pool", "shutdown"}
    /\ \E t \in 1..Len(tasks) :
          /\ tasks[t].status = "running"
          /\ \E ord \in Perms(UNION {NodesOf(disk[bucket_paths[i]]) :
                                        i \in tasks[t].lo..tasks[t].hi}) :
                results' = [i \in 1..Len(results) |->
                               IF i \in tasks[t].lo..tasks[t].hi
                               THEN process_bucket(disk[bucket_paths[i]], ord)
                               ELSE results[i]]
          /\ tasks' = [tasks EXCEPT ![t].status = "done"]
    /\ UNCHANGED <<pc, num_buckets, max_handles, envVars, searchVars, frame, open_files, input,
                   stats, cache, disk, writes,
                   tmp_dir, bucket_paths, executor, taken, best_result, ret,
                   bucketVars>>

\* The work item that computes result i.
TaskOf(work, i) == CHOOSE t \in 1..Len(work) : i \in work[t].lo..work[t].hi

\* What stands in results for a call of process_bucket that raised.
Failed == [claim_id |-> <<>>, status_code |-> <<>>, cycle_length |-> -1]

\* The iterator passing over a failed work item as if it had found no cycle.
ResultsSkippingFailed(work, got, n) ==
    {i \in {Len(got) + 1} : i <= n /\ work[TaskOf(work, i)].status # "pending"
                                   /\ work[TaskOf(work, i)].status # "running"}

\* The results as_completed would offer: every finished one not yet taken.
ResultsAsCompleted(work, got, n) ==
    {i \in 1..n : i \notin Range(got) /\ work[TaskOf(work, i)].status = "done"}

\* bytes.decode("utf-8") on ASCII bytes (all the model's bytes are below 128):
\* each byte is the code point of one character.
Decode(bytes) == [i \in 1..Len(bytes) |-> [cp |-> bytes[i]]]

\* solve.py:135-143, the value solve returns for a final running best.
ReturnValue(best) ==
    IF best = NoResult THEN ReturnNone
    ELSE <<Decode(best.claim_id), Decode(best.status_code), best.cycle_length>>

\* The results the iterator of executor.map offers next: it yields them in the
\* order of bucket_paths, so only the one after the last taken, and only once
\* its work item is done.
ResultsReady(work, got, n) ==
    {i \in {Len(got) + 1} : i <= n /\ work[TaskOf(work, i)].status = "done"}

\* One iteration of process_results under a pool (solve.py:96-100).
TakeResult ==
    /\ pc = "pool"
    /\ \E i \in ResultsReady(tasks, taken, Len(bucket_paths)) :
          /\ best_result' = Reduce(best_result, results[i])
          /\ taken' = Append(taken, i)
    /\ UNCHANGED <<pc, num_buckets, max_handles, envVars, searchVars, frame, open_files, input,
                   stats, cache, disk, writes,
                   tmp_dir, bucket_paths, executor, tasks, results, ret, bucketVars>>

\* solve.py:135-146: the stream is exhausted; return and remove the scratch
\* directory.
Return ==
    /\ pc \in {"serial", "pool"}
    /\ Len(taken) = Len(bucket_paths)
    /\ \E removed \in Removals :
          LET out == Rmtree(disk, removed, ReturnValue(best_result))
          IN ret' = out.ret /\ tmp_dir' = out.tmp_dir /\ disk' = out.disk
    /\ pc' = "done"
    /\ UNCHANGED <<num_buckets, max_handles, envVars, searchVars, frame, open_files, input,
                   stats, cache, writes,
                   bucket_paths, executor, tasks, results, taken, best_result,
                   bucketVars>>

Next ==
    \/ ReadLine
    \/ PartitionReturn
    \/ ReturnEmpty
    \/ Dispatch
    \/ SerialStep
    \/ StartTask
    \/ FinishTask
    \/ TakeResult
    \/ Return

Spec == Init /\ [][Next]_vars

\* --------------------------------------------- the partition pass alone
\* partition_to_buckets called on its own, on files of RawLines, with every
\* bucket count and every cache capacity up to MaxOpenHandles.

InitPartition == Start("partition", BucketCounts, 1..MaxOpenHandles)
                    /\ Env({Unset}, {TRUE}, {TRUE}, {FALSE}) /\ NoSearch

ReadRawLine == ReadFrom(RawLines, MaxRawLines)

NextPartition ==
    \/ ReadRawLine
    \/ PartitionReturn

SpecPartition == InitPartition /\ [][NextPartition]_vars

\* ------------------------------------------------------ the cache alone
\* An LRUFileCache used on its own: any sequence of at most MaxWrites write
\* calls on the bucket indices 0..3, then close_all.  The n-th call writes the
\* line made of the digit n.

InitCache == Start("cache", {4}, 1..MaxOpenHandles) /\ Env({Unset}, {TRUE}, {TRUE}, {FALSE}) /\ NoSearch

CacheWriteCall ==
    /\ pc = "cache"
    /\ Len(writes) < MaxWrites
    /\ \E bucket_idx \in DOMAIN disk :
          LET data == <<48 + Len(writes), LF>>
              st == CacheWrite([cache |-> cache, disk |-> disk], max_handles,
                               bucket_idx, data)
          IN /\ cache' = st.cache
             /\ disk' = st.disk
             /\ writes' = Append(writes, <<bucket_idx, data>>)
    /\ open_files' = Range(DictKeys(cache'))
    /\ UNCHANGED <<pc, num_buckets, max_handles, envVars, searchVars, frame, input, stats,
                   solveVars, bucketVars>>

CacheCloseAllCall ==
    /\ pc = "cache"
    /\ LET st == CacheCloseAll([cache |-> cache, disk |-> disk])
       IN /\ cache' = st.cache
          /\ disk' = st.disk
    /\ pc' = "closed"
    /\ open_files' = Range(DictKeys(cache'))
    /\ UNCHANGED <<num_buckets, max_handles, envVars, searchVars, frame, input, stats, writes,
                   solveVars,
                   bucketVars>>

NextCache ==
    \/ CacheWriteCall
    \/ CacheCloseAllCall

SpecCache == InitCache /\ [][NextCache]_vars

\* ------------------------------------------------- the policy selection alone
\* get_executor_class and describe_executor on every value of EnvValues, with
\* the GIL enabled and disabled.

InitPolicy == Start("select", {1}, {MaxOpenHandles})
                 /\ Env(EnvValues, BOOLEAN, {TRUE}, {FALSE}) /\ NoSearch

NextPolicy == SelectExecutor

SpecPolicy == InitPolicy /\ [][NextPolicy]_vars

\* ------------------------------------------- the cache, statement by statement
\* The same calls with a write that misses taken one statement at a time:
\* the test of the eviction loop, popitem, close, then open with the insertion
\* and the write.  open_files is what the operating system sees.

\* cache.py:23-25, 34: the bucket has a handle; it becomes the most recent one
\* and takes the data.
WriteHit ==
    /\ pc = "cache"
    /\ Len(writes) < MaxWrites
    /\ \E bucket_idx \in DOMAIN disk :
          /\ DictHas(cache, bucket_idx)
          /\ LET data == <<48 + Len(writes), LF>>
                 st == CacheWrite([cache |-> cache, disk |-> disk], max_handles,
                                  bucket_idx, data)
             IN /\ cache' = st.cache
                /\ disk' = st.disk
                /\ writes' = Append(writes, <<bucket_idx, data>>)
    /\ UNCHANGED <<pc, num_buckets, max_handles, envVars, searchVars, frame, open_files, input,
                   stats, solveVars, bucketVars>>

\* cache.py:23, 26: the bucket has no handle; the call goes to its else branch.
WriteMiss ==
    /\ pc = "cache"
    /\ Len(writes) < MaxWrites
    /\ \E bucket_idx \in DOMAIN disk :
          /\ ~DictHas(cache, bucket_idx)
          /\ frame' = [bucket_idx |-> bucket_idx,
                       data |-> <<48 + Len(writes), LF>>,
                       old_handle |-> <<>>]
    /\ pc' = "evict"
    /\ UNCHANGED <<num_buckets, max_handles, envVars, searchVars, open_files, input, stats, cache,
                   disk, writes, solveVars, bucketVars>>

\* cache.py:27-28: the loop test holds; popitem(last=False) takes the oldest
\* item out of the dict.
PopItem ==
    /\ pc = "evict"
    /\ AtCapacity(cache, max_handles)
    /\ frame' = [frame EXCEPT !.old_handle = Head(cache)]
    /\ cache' = Tail(cache)
    /\ pc' = "close"
    /\ UNCHANGED <<num_buckets, max_handles, envVars, searchVars, open_files, input, stats, disk,
                   writes, solveVars, bucketVars>>

\* cache.py:29: old_handle.close() flushes and closes the file.
CloseOld ==
    /\ pc = "close"
    /\ disk' = CloseHandle(disk, frame.old_handle)
    /\ open_files' = open_files \ {frame.old_handle[1]}
    /\ frame' = [frame EXCEPT !.old_handle = <<>>]
    /\ pc' = "evict"
    /\ UNCHANGED <<num_buckets, max_handles, envVars, searchVars, input, stats, cache, writes,
                   solveVars, bucketVars>>

\* cache.py:31-34: the loop test fails; the file is opened, its handle put in
\* the dict, the data written to it.
OpenNew ==
    /\ pc = "evict"
    /\ ~AtCapacity(cache, max_handles)
    /\ disk' = OpenAppend(disk, frame.bucket_idx)
    /\ open_files' = open_files \cup {frame.bucket_idx}
    /\ cache' = Append(cache, <<frame.bucket_idx, frame.data>>)
    /\ writes' = Append(writes, <<frame.bucket_idx, frame.data>>)
    /\ frame' = NoFrame
    /\ pc' = "cache"
    /\ UNCHANGED <<num_buckets, max_handles, envVars, searchVars, input, stats, solveVars,
                   bucketVars>>

NextCacheSteps ==
    \/ WriteHit
    \/ WriteMiss
    \/ PopItem
    \/ CloseOld
    \/ OpenNew
    \/ CacheCloseAllCall

SpecCacheSteps == InitCache /\ [][NextCacheSteps]_vars

\* ------------------------------------------------------ main_solve, whole
\* main_solve on any bucket count, with an input file that may be missing and
\* an operating system that may fail.  An exception in flight is
\* <<"raise", kind>>; ret holds it from the raise on, and it is the outcome of
\* solve once pc = "raised".

MaxMainLines == 3

\* Group (x,1) can carry a 2-cycle; group (y,1) falls into another bucket when
\* there are two; an empty line and a line with three fields.
MainLines ==
    { MkLine(<<65>>, <<66>>, <<120>>, <<49>>, <<LF>>),
      MkLine(<<66>>, <<65>>, <<120>>, <<49>>, <<LF>>),
      MkLine(<<65>>, <<66>>, <<121>>, <<49>>, <<LF>>),
      <<LF>>,
      <<65, PIPE, 66, PIPE, 120, LF>> }

MainBucketCounts == {-2, -1, 0, 1, 2, 3}

MainEnvValues == {Unset, StrSerial, <<84, 72, 82, 69, 65, 68, 83>>}

Raise(kind) == <<"raise", kind>>

InitMain ==
    /\ pc = "validate"
    /\ num_buckets \in MainBucketCounts
    /\ max_handles \in {1, MaxOpenHandles}
    /\ input = <<>>
    /\ stats = [lines_read |-> 0, empty_lines |-> 0, malformed_lines |-> 0,
                lines_written |-> 0]
    /\ cache = <<>>
    /\ disk = <<>>
    /\ writes = <<>>
    /\ tmp_dir = "none"
    /\ bucket_paths = <<>>
    /\ executor = "unset"
    /\ tasks = <<>>
    /\ results = <<>>
    /\ taken = <<>>
    /\ best_result = NoResult
    /\ ret = Running
    /\ bucket_lines = <<>>
    /\ built = [edges |-> <<>>, max_out_degree |-> <<>>]
    /\ open_files = {}
    /\ frame = NoFrame
    /\ NoSearch
    /\ Env(MainEnvValues, {TRUE}, BOOLEAN, {TRUE})

\* The test that lets every bucket count through.
AcceptsAll(buckets) == TRUE

\* solve.py:42, the negation of the condition of the raise.
PassesValidation(buckets) == AndIsZero(buckets, buckets - 1)

\* solve.py:41-43
Validate ==
    /\ pc = "validate"
    /\ IF PassesValidation(num_buckets)
       THEN pc' = "select" /\ ret' = ret
       ELSE pc' = "raised" /\ ret' = Raise("ValueError")
    /\ UNCHANGED <<num_buckets, max_handles, envVars, searchVars, frame, open_files, input, stats,
                   cache, disk, writes, tmp_dir, bucket_paths, executor, tasks,
                   results, taken, best_result, bucketVars>>

\* solve.py:61, tempfile.mkdtemp: the directory is created, empty, or the call
\* raises and the error leaves solve at once (the try starts after it).
MkDtemp ==
    /\ pc = "mkdtemp"
    /\ \E created \in BOOLEAN :
          IF created
          THEN /\ tmp_dir' = "exists"
               /\ disk' = [i \in 0..(num_buckets - 1) |-> NoFile]
               /\ pc' = "open"
               /\ ret' = ret
          ELSE /\ pc' = "raised"
               /\ ret' = Raise("OSError")
               /\ UNCHANGED <<tmp_dir, disk>>
    /\ UNCHANGED <<num_buckets, max_handles, envVars, searchVars, frame, open_files, input, stats,
                   cache, writes, bucket_paths, executor, tasks, results, taken,
                   best_result, bucketVars>>

\* The input opened without a look at whether it is there.
OpenedAnyway(exists) == TRUE

\* Whether open(input_path, "rb") gives a file.
Opened(exists) == exists

\* partition.py:20-28 and 51-52: the cache is made and the input opened; when
\* the file is missing open raises FileNotFoundError, close_all runs on the
\* empty cache and the error leaves partition_to_buckets.
OpenInput ==
    /\ pc = "open"
    /\ IF Opened(input_exists)
       THEN pc' = "partition" /\ ret' = ret
       ELSE pc' = "unwinding" /\ ret' = Raise("FileNotFoundError")
    /\ UNCHANGED <<num_buckets, max_handles, envVars, searchVars, frame, open_files, input, stats,
                   cache, disk, writes, tmp_dir, bucket_paths, executor, tasks,
                   results, taken, best_result, bucketVars>>

ReadMainLine == ReadFrom(MainLines, MaxMainLines)

\* partition.py:51-52 with an exception in flight: close_all() runs, each of
\* its closes may raise in its turn, and the error that leaves
\* partition_to_buckets is the one of close_all when there is one.
PartitionExit(st, error) ==
    \E k \in 0..Len(st.cache) :
       LET out == CloseAllRaising(st, k)
       IN /\ cache' = out.cache
          /\ disk' = out.disk
          /\ open_files' = out.open
          /\ ret' = IF k = 0 THEN error ELSE Raise("OSError")
          /\ pc' = "unwinding"

\* partition.py:29: reading the next line of the input raises.
ReadRaises ==
    /\ pc = "partition"
    /\ io_errors
    /\ Len(input) < MaxMainLines
    /\ PartitionExit([cache |-> cache, disk |-> disk], Raise("OSError"))
    /\ UNCHANGED <<num_buckets, max_handles, envVars, searchVars, frame, input, stats, writes,
                   tmp_dir, bucket_paths, executor, tasks, results, taken,
                   best_result, bucketVars>>

\* partition.py:29-48: a record line is read and cache.write raises.
WriteRaises ==
    /\ pc = "partition"
    /\ io_errors
    /\ Len(input) < MaxMainLines
    /\ \E raw_line \in MainLines, at \in {"close", "open", "write"} :
          LET line  == rstrip(raw_line)
              parts == split(line, PIPE, 3)
          IN /\ line # <<>>
             /\ Len(parts) >= 4
             /\ LET bucket_idx == BucketIndex(parts[3], parts[4], num_buckets)
                IN /\ CanRaiseAt(cache, max_handles, bucket_idx, at)
                   /\ PartitionExit(CacheWriteRaising([cache |-> cache, disk |-> disk],
                                                      max_handles, bucket_idx, at),
                                    Raise("OSError"))
             /\ input' = Append(input, raw_line)
             /\ stats' = [stats EXCEPT !.lines_read = @ + 1]
    /\ UNCHANGED <<num_buckets, max_handles, envVars, searchVars, frame, writes, tmp_dir,
                   bucket_paths, executor, tasks, results, taken, best_result,
                   bucketVars>>

\* partition.py:51-52 at the end of the input: a close of close_all() raises.
CloseAllRaises ==
    /\ pc = "partition"
    /\ io_errors
    /\ \E k \in 1..Len(cache) :
          LET out == CloseAllRaising([cache |-> cache, disk |-> disk], k)
          IN /\ cache' = out.cache
             /\ disk' = out.disk
             /\ open_files' = out.open
    /\ ret' = Raise("OSError")
    /\ pc' = "unwinding"
    /\ UNCHANGED <<num_buckets, max_handles, envVars, searchVars, frame, input, stats, writes,
                   tmp_dir, bucket_paths, executor, tasks, results, taken,
                   best_result, bucketVars>>

\* solve.py:106-107: process_bucket raises in the generator of the serial
\* policy; the error leaves process_results at once.
SerialStepRaises ==
    /\ pc = "serial"
    /\ io_errors
    /\ Len(taken) < Len(bucket_paths)
    /\ results' = [results EXCEPT ![Len(taken) + 1] = Failed]
    /\ ret' = Raise("WorkerError")
    /\ pc' = "unwinding"
    /\ UNCHANGED <<num_buckets, max_handles, envVars, searchVars, frame, open_files, input,
                   stats, cache, disk, writes, tmp_dir, bucket_paths, executor,
                   tasks, taken, best_result, bucketVars>>

\* A worker of the pool ends its work item with an exception: process_bucket
\* raised on path i of the item, and the item has no result.
FinishTaskRaises ==
    /\ pc \in {"pool", "shutdown"}
    /\ io_errors
    /\ \E t \in 1..Len(tasks) :
          /\ tasks[t].status = "running"
          /\ \E i \in tasks[t].lo..tasks[t].hi :
                results' = [results EXCEPT ![i] = Failed]
          /\ tasks' = [tasks EXCEPT ![t].status = "failed"]
    /\ UNCHANGED <<pc, num_buckets, max_handles, envVars, searchVars, frame, open_files, input,
                   stats, cache, disk, writes, tmp_dir, bucket_paths, executor,
                   taken, best_result, ret, bucketVars>>

\* solve.py:96-97 under a pool: the iterator of executor.map reaches a work
\* item that failed and raises its exception inside process_results; the
\* iterator cancels the work items no worker has started.
TakeRaises ==
    /\ pc = "pool"
    /\ Len(taken) < Len(bucket_paths)
    /\ tasks[TaskOf(tasks, Len(taken) + 1)].status = "failed"
    /\ tasks' = [t \in 1..Len(tasks) |->
                    IF tasks[t].status = "pending"
                    THEN [tasks[t] EXCEPT !.status = "cancelled"] ELSE tasks[t]]
    /\ ret' = Raise("WorkerError")
    /\ pc' = "shutdown"
    /\ UNCHANGED <<num_buckets, max_handles, envVars, searchVars, frame, open_files, input,
                   stats, cache, disk, writes, tmp_dir, bucket_paths, executor,
                   results, taken, best_result, bucketVars>>

\* A shutdown that does not wait.
IdleOrNot(work) == TRUE

\* What shutdown(wait=True) waits for: no work item is running.
Idle(work) == \A t \in 1..Len(work) : work[t].status # "running"

\* solve.py:109, the exit of the with statement with the exception in flight:
\* the executor is shut down, which waits for the running work items.
Shutdown ==
    /\ pc = "shutdown"
    /\ Idle(tasks)
    /\ pc' = "unwinding"
    /\ UNCHANGED <<num_buckets, max_handles, envVars, searchVars, frame, open_files, input,
                   stats, cache, disk, writes, solveVars, bucketVars>>

\* solve.py:145-146 with an exception in flight: the finally of solve runs and
\* the error leaves solve.
Unwind ==
    /\ pc = "unwinding"
    /\ \E removed \in Removals :
          LET out == Rmtree(disk, removed, ret)
          IN ret' = out.ret /\ tmp_dir' = out.tmp_dir /\ disk' = out.disk
    /\ pc' = "raised"
    /\ UNCHANGED <<num_buckets, max_handles, envVars, searchVars, frame, open_files, input, stats,
                   cache, writes, bucket_paths, executor, tasks, results, taken,
                   best_result, bucketVars>>

\* str(n) for n >= 0, as code points.
RECURSIVE Digits(_)
Digits(n) == IF n < 10 THEN <<48 + n>> ELSE Digits(n \div 10) \o <<48 + (n % 10)>>

Chars(str) == [i \in 1..Len(str) |-> str[i].cp]

\* The line printed when solve found no cycle left empty.
PrintedLineBlank(result) ==
    IF result # ReturnNone
    THEN Chars(result[1]) \o <<44>> \o Chars(result[2]) \o <<44>> \o Digits(result[3])
    ELSE <<>>

\* solve.py:154-157: the line main_solve prints for what solve returned; a
\* tuple of three is true, None is false.
PrintedLine(result) ==
    IF result # ReturnNone
    THEN Chars(result[1]) \o <<44>> \o Chars(result[2]) \o <<44>> \o Digits(result[3])
    ELSE Digits(0)

\* solve.py:149-157: solve has returned and main_solve prints.  An exception
\* of solve leaves main_solve as well, and nothing is printed.
PrintResult ==
    /\ pc = "done"
    /\ stdout' = Append(stdout, PrintedLine(ret))
    /\ pc' = "printed"
    /\ UNCHANGED <<searchVars, num_buckets, max_handles, rc_executor, gil_enabled, input_exists,
                   io_errors, frame, open_files, input, stats, cache, disk, writes,
                   solveVars, bucketVars>>

NextMain ==
    \/ Validate
    \/ SelectExecutor
    \/ MkDtemp
    \/ OpenInput
    \/ ReadMainLine
    \/ PartitionReturn
    \/ ReturnEmpty
    \/ Dispatch
    \/ SerialStep
    \/ StartTask
    \/ FinishTask
    \/ TakeResult
    \/ Return
    \/ ReadRaises
    \/ WriteRaises
    \/ CloseAllRaises
    \/ SerialStepRaises
    \/ FinishTaskRaises
    \/ TakeRaises
    \/ Shutdown
    \/ Unwind
    \/ PrintResult

SpecMain == InitMain /\ [][NextMain]_vars

\* ------------------------------------------------ one bucket processor alone
\* process_bucket on a bucket file made of at most MaxBucketLines lines of
\* BucketLines: the records are read and inserted one by one, then the groups
\* are searched.

InitBucket == Start("build", {1}, {MaxOpenHandles}) /\ Env({Unset}, {TRUE}, {TRUE}, {FALSE}) /\ NoSearch

\* One iteration of build.py:26-37 fed by the generator read_bucket_records:
\* the next raw line is read and, when it parses, inserted.
BuildStep ==
    /\ pc = "build"
    /\ Len(bucket_lines) < MaxBucketLines
    /\ \E raw_line \in BucketLines :
          LET parsed == parse_bucket_line(raw_line)
          IN /\ bucket_lines' = Append(bucket_lines, raw_line)
             /\ built' = IF parsed = NoRecord THEN built
                         ELSE BuildRecord(built, parsed)
    /\ UNCHANGED <<pc, num_buckets, max_handles, envVars, searchVars, frame, open_files, input,
                   stats, cache, disk, writes,
                   solveVars>>

\* End of the bucket file: process_bucket.py:20-28.
SearchGroups ==
    /\ pc = "build"
    /\ \E ord \in Perms(NodesOf(Concat(bucket_lines))) :
          results' = <<BestOfGroups(built.edges, built.max_out_degree, ord, NoResult)>>
    /\ pc' = "searched"
    /\ UNCHANGED <<num_buckets, max_handles, envVars, searchVars, frame, open_files, input,
                   stats, cache, disk, writes,
                   tmp_dir, bucket_paths, executor, tasks, taken, best_result,
                   ret, bucketVars>>

NextBucket ==
    \/ BuildStep
    \/ SearchGroups

SpecBucket == InitBucket /\ [][NextBucket]_vars

\* ------------------------------------------------- one cycle search alone
\* find_longest_cycle followed step by step on the adjacency map of every set
\* of at most MaxEdges edges between four nodes, self-loops included, under
\* the orders in which a run may iterate its sets.  The two history variables
\* record what the searches do: `added` each node given a position in a
\* path_order, `recorded` each arrival at the branch of cycle.py:103-107.

MaxEdges == 4

SearchNodes == {<<65>>, <<66>>, <<67>>, <<68>>}

EdgeSets == {E \in SUBSET (SearchNodes \X SearchNodes) : Cardinality(E) <= MaxEdges}

\* Every source of E has one destination.
OneDestination(E) == \A e1, e2 \in E : e1[1] = e2[1] => e1[2] = e2[2]

\* The adjacency map build_grouped_adjacency leaves for the edges E: a key for
\* each source, its set of destinations never empty, the keys in the order
\* the sources first appeared.
AdjOf(E, order) ==
    LET srcs == SetIter({e[1] : e \in E}, order)
    IN [i \in 1..Len(srcs) |-> <<srcs[i], {e[2] : e \in {x \in E : x[1] = srcs[i]}}>>]

\* The iteration orders: all of them for find_cycle_functional, which iterates
\* the set of all nodes; the sorted one and its reverse for find_cycle_dfs,
\* which iterates sets of neighbours only.
SearchOrders(functional) ==
    IF functional THEN Perms(SearchNodes)
    ELSE LET up == SortBytes(SearchNodes)
         IN {up, [i \in 1..Len(up) |-> up[Len(up) + 1 - i]]}

InitSearch ==
    /\ Start("find_longest_cycle", {1}, {MaxOpenHandles})
    /\ Env({Unset}, {TRUE}, {TRUE}, {FALSE})
    /\ \E E \in EdgeSets :
          /\ is_functional \in (IF OneDestination(E) THEN BOOLEAN ELSE {FALSE})
          /\ iter_order \in SearchOrders(is_functional)
          /\ adj = AdjOf(E, iter_order)
    /\ longest = 0
    /\ starts = <<>>
    /\ globally_visited = {}
    /\ path_order = <<>>
    /\ current = NoNode
    /\ stack = <<>>
    /\ path = {}
    /\ added = <<>>
    /\ recorded = <<>>
    /\ nodes_sorted = <<>>

\* cycle.py:32-35, the next-node mapping of this run.
NextNodeMap == NextNode(adj, iter_order)

\* cycle.py:93, nodes_sorted.
NodesSorted == SortBytes(Range(DictKeys(adj)))

\* find_longest_cycle (cycle.py:17-22) and the lines of the search it calls
\* that come before the loop over the start nodes (cycle.py:32-47, 88-96).
FindLongestCycle ==
    /\ pc = "find_longest_cycle"
    /\ IF adj = <<>> THEN pc' = "returned" /\ starts' = starts
       ELSE IF is_functional
       THEN IF NextNodeMap = <<>> THEN pc' = "returned" /\ starts' = starts
            ELSE /\ pc' = "functional_for"
                 /\ starts' = SetIter({NextNodeMap[i][1] : i \in 1..Len(NextNodeMap)}
                                        \cup {NextNodeMap[i][2] : i \in 1..Len(NextNodeMap)},
                                      iter_order)
       ELSE IF NodesSorted = <<>> THEN pc' = "returned" /\ starts' = starts
            ELSE pc' = "dfs_for" /\ starts' = NodesSorted
    /\ nodes_sorted' = IF adj # <<>> /\ ~is_functional THEN NodesSorted ELSE nodes_sorted
    /\ longest' = 0
    /\ globally_visited' = {}
    /\ UNCHANGED <<num_buckets, max_handles, envVars, frame, open_files, input, stats,
                   cache, disk, writes, solveVars, bucketVars, adj, is_functional,
                   iter_order, path_order, current, stack, path, added, recorded>>

\* cycle.py:49-56 and 75: the for loop takes its next start node, or the
\* search returns.
FunctionalFor ==
    /\ pc = "functional_for"
    /\ IF starts = <<>>
       THEN pc' = "returned" /\ UNCHANGED <<starts, path_order, current>>
       ELSE /\ starts' = Tail(starts)
            /\ IF Head(starts) \in globally_visited
               THEN UNCHANGED <<pc, path_order, current>>
               ELSE /\ path_order' = <<>>
                    /\ current' = Head(starts)
                    /\ pc' = "functional_while"
    /\ UNCHANGED <<num_buckets, max_handles, envVars, frame, open_files, input, stats,
                   cache, disk, writes, solveVars, bucketVars, adj, is_functional,
                   iter_order, longest, globally_visited, stack, path, added,
                   recorded, nodes_sorted>>

\* The cycle length taken to be the whole length of the walk.
CycleLenOfWalk(pos, at) == pos

\* cycle.py:64
CycleLen(pos, at) == pos - at

\* A closed walk of any length taken as a cycle.
LongerOfAny(cycle_len, best) == cycle_len > best

\* cycle.py:65, the condition under which a cycle replaces `longest`.
Longer(cycle_len, best) == cycle_len >= 2 /\ cycle_len > best

\* A walk that never finds its current node on itself.
OnWalkNever(node, order) == FALSE

\* cycle.py:62
OnWalk(node, order) == node \in Range(order)

\* cycle.py:58-73: one iteration of the while loop; when the loop is left,
\* the nodes of the walk join globally_visited.
FunctionalWhile ==
    /\ pc = "functional_while"
    /\ IF current = NoNode \/ current \in globally_visited
       THEN /\ globally_visited' = globally_visited \cup Range(path_order)
            /\ pc' = "functional_for"
            /\ UNCHANGED <<longest, path_order, current, added>>
       ELSE IF OnWalk(current, path_order)
       THEN LET pos == Len(path_order)
                at  == (CHOOSE i \in 1..Len(path_order) : path_order[i] = current) - 1
                cycle_len == CycleLen(pos, at)
            IN /\ longest' = IF Longer(cycle_len, longest) THEN cycle_len ELSE longest
               /\ globally_visited' = globally_visited \cup Range(path_order)
               /\ pc' = "functional_for"
               /\ UNCHANGED <<path_order, current, added>>
       ELSE /\ path_order' = Append(path_order, current)
            /\ added' = Append(added, current)
            /\ current' = DictGet(NextNodeMap, current, NoNode)
            /\ UNCHANGED <<pc, longest, globally_visited>>
    /\ UNCHANGED <<num_buckets, max_handles, envVars, frame, open_files, input, stats,
                   cache, disk, writes, solveVars, bucketVars, adj, is_functional,
                   iter_order, starts, stack, path, recorded, nodes_sorted>>

\* A call of dfs: its node, the neighbours its for loop has yet to take, its
\* depth.
Call(node, depth) ==
    [node |-> node,
     neighbors |-> SetIter(DictGet(adj, node, {}), iter_order),
     depth |-> depth]

\* cycle.py:117-121: the for loop takes its next start node and calls dfs, or
\* the search returns.
DfsFor ==
    /\ pc = "dfs_for"
    /\ IF starts = <<>>
       THEN pc' = "returned" /\ UNCHANGED <<starts, path, stack>>
       ELSE /\ starts' = Tail(starts)
            /\ path' = {Head(starts)}
            /\ stack' = <<Call(Head(starts), 0)>>
            /\ pc' = "dfs"
    /\ UNCHANGED <<num_buckets, max_handles, envVars, frame, open_files, input, stats,
                   cache, disk, writes, solveVars, bucketVars, adj, is_functional,
                   iter_order, longest, globally_visited, path_order, current, added,
                   recorded, nodes_sorted>>

\* An edge back to the start taken as a cycle at any depth.
ClosesCycleAtAnyDepth(neighbor, start, depth) == neighbor = start

\* cycle.py:103
ClosesCycle(neighbor, start, depth) == neighbor = start /\ depth >= 1

\* Every node that has outgoing edges may be entered, whatever its index.
MayEnterAny(neighbor_idx, start_idx) == neighbor_idx # NoIndex

\* cycle.py:111
MayEnter(neighbor_idx, start_idx) == neighbor_idx # NoIndex /\ neighbor_idx >= start_idx

\* A search that never finds a neighbour on its path.
OnPathNever(neighbor, nodes) == FALSE

\* cycle.py:108, negated.
OnPath(neighbor, nodes) == neighbor \in nodes

\* cycle.py:102-113: the for loop of the innermost call takes its next
\* neighbour.
DfsNeighbor ==
    /\ pc = "dfs"
    /\ LET top   == stack[Len(stack)]
           start == stack[1].node
           start_idx == IdxGet(nodes_sorted, start)
           neighbor  == Head(top.neighbors)
           taken_off == [stack EXCEPT ![Len(stack)].neighbors = Tail(@)]
       IN /\ top.neighbors # <<>>
          /\ IF ClosesCycle(neighbor, start, top.depth)
             THEN LET cycle_len == top.depth + 1
                  IN /\ longest' = IF cycle_len > longest THEN cycle_len ELSE longest
                     /\ recorded' = Append(recorded,
                                       [start_idx |-> start_idx,
                                        cycle |-> [k \in 1..Len(stack) |-> stack[k].node],
                                        cycle_len |-> cycle_len])
                     /\ stack' = taken_off
                     /\ path' = path
             ELSE IF ~OnPath(neighbor, path)
                     /\ MayEnter(IdxGet(nodes_sorted, neighbor), start_idx)
             THEN /\ path' = path \cup {neighbor}
                  /\ stack' = Append(taken_off, Call(neighbor, top.depth + 1))
                  /\ UNCHANGED <<longest, recorded>>
             ELSE /\ stack' = taken_off
                  /\ UNCHANGED <<longest, recorded, path>>
    /\ UNCHANGED <<pc, num_buckets, max_handles, envVars, frame, open_files, input,
                   stats, cache, disk, writes, solveVars, bucketVars, adj,
                   is_functional, iter_order, starts, globally_visited, path_order,
                   current, added, nodes_sorted>>

\* cycle.py:102 and 114: the for loop of the innermost call is exhausted, the
\* call returns, and its caller removes the node from path; the outermost
\* call returns to the loop over the start nodes.
DfsReturn ==
    /\ pc = "dfs"
    /\ stack[Len(stack)].neighbors = <<>>
    /\ stack' = SubSeq(stack, 1, Len(stack) - 1)
    /\ IF Len(stack) = 1
       THEN pc' = "dfs_for" /\ path' = path
       ELSE pc' = pc /\ path' = path \ {stack[Len(stack)].node}
    /\ UNCHANGED <<num_buckets, max_handles, envVars, frame, open_files, input, stats,
                   cache, disk, writes, solveVars, bucketVars, adj, is_functional,
                   iter_order, longest, starts, globally_visited, path_order, current,
                   added, recorded, nodes_sorted>>

NextSearch ==
    \/ FindLongestCycle
    \/ FunctionalFor
    \/ FunctionalWhile
    \/ DfsFor
    \/ DfsNeighbor
    \/ DfsReturn

SpecSearch == InitSearch /\ [][NextSearch]_vars

\* Every step that can be taken is taken in the end: the interpreter runs the
\* one thread of the search.
SpecSearchFair == SpecSearch /\ WF_vars(NextSearch)

\* ------------------------------------------------- solve as one function
\* The run of solve under the serial policy with every set iterated in sorted
\* order, as a function of the raw lines of the input file: the partition
\* loop, close_all, the listing, process_bucket and process_results over the
\* paths in order, the return value.

RECURSIVE PartitionLoop(_, _, _, _)
PartitionLoop(st, lines, buckets, handles) ==
    IF lines = <<>> THEN st
    ELSE PartitionLoop(PartitionLine(st, Head(lines), buckets, handles),
                       Tail(lines), buckets, handles)

PartitionedDisk(lines, buckets, handles) ==
    LET st == PartitionLoop(
                  [stats  |-> [lines_read |-> 0, empty_lines |-> 0,
                               malformed_lines |-> 0, lines_written |-> 0],
                   cache  |-> <<>>,
                   disk   |-> [i \in 0..(buckets - 1) |-> NoFile],
                   writes |-> <<>>],
                  lines, buckets, handles)
    IN CacheCloseAll([cache |-> st.cache, disk |-> st.disk]).disk

RECURSIVE ReduceInOrder(_, _, _)
ReduceInOrder(d, paths, best) ==
    IF paths = <<>> THEN best
    ELSE ReduceInOrder(d, Tail(paths),
             Reduce(best, process_bucket(d[Head(paths)],
                                         SortBytes(NodesOf(d[Head(paths)])))))

SerialRun(lines, buckets, handles) ==
    LET d == PartitionedDisk(lines, buckets, handles)
    IN ReturnValue(ReduceInOrder(d, NonEmpty(d, buckets), NoResult))

\* ============================================================ properties
\* What the claims are measured against, stated on the raw lines without the
\* program's operators: which lines are records, the edges of a group, the
\* simple cycles of an edge set.

\* A raw line without its trailing CR and LF bytes.
TrimmedOf(raw) ==
    LET keep == {i \in 1..Len(raw) : \E j \in i..Len(raw) : raw[j] \notin {CR, LF}}
    IN [i \in 1..Cardinality(keep) |-> raw[i]]

\* The positions of the first three '|' bytes of a byte string.
Bars(line) == {i \in 1..Len(line) : line[i] = PIPE}
FirstBars(line) ==
    {i \in Bars(line) : Cardinality({j \in Bars(line) : j < i}) < 3}

\* Field k (1..4) of a trimmed line with three bars or more: the bytes between
\* the (k-1)-th and the k-th of the first three bars, the fourth field running
\* to the end.
FieldOf(line, k) ==
    LET bar(n) == IF n = 0 THEN 0
                  ELSE IF n = 4 THEN Len(line) + 1
                  ELSE CHOOSE i \in FirstBars(line) :
                          Cardinality({j \in FirstBars(line) : j <= i}) = n
    IN SubSeq(line, bar(k - 1) + 1, bar(k) - 1)

\* What a raw line is: its bytes without the trailing CR and LF bytes, the
\* number of its bars, its four fields when it has them.
Reading(raw) ==
    LET line == TrimmedOf(raw)
    IN [trimmed |-> line,
        bars    |-> Cardinality(Bars(line)),
        fields  |-> IF Cardinality(Bars(line)) >= 3
                    THEN [k \in 1..4 |-> FieldOf(line, k)]
                    ELSE <<>>]

\* The readings of the lines the inputs are made of and of the lines the
\* partition pass makes of them, computed once.
KnownLines ==
    LET pool == InputLines \cup RawLines \cup BucketLines
    IN pool \cup {TrimmedOf(raw) \o <<LF>> : raw \in pool}
ReadingTable == [raw \in KnownLines |-> Reading(raw)]
ReadingOf(raw) == IF raw \in KnownLines THEN ReadingTable[raw] ELSE Reading(raw)

Trimmed(raw) == ReadingOf(raw).trimmed
IsEmptyLine(raw) == Trimmed(raw) = <<>>
IsRecordLine(raw) == ReadingOf(raw).bars >= 3
IsMalformedLine(raw) == ~IsEmptyLine(raw) /\ ~IsRecordLine(raw)
Field(raw, k) == ReadingOf(raw).fields[k]

KeyOf(raw) == <<Field(raw, 3), Field(raw, 4)>>

\* The group keys of a sequence of raw lines and the edge set of one group.
GroupsOf(lines) == {KeyOf(lines[i]) : i \in {j \in 1..Len(lines) : IsRecordLine(lines[j])}}

EdgesOf(lines, key) ==
    {<<Field(lines[i], 1), Field(lines[i], 2)>> :
        i \in {j \in 1..Len(lines) : IsRecordLine(lines[j]) /\ KeyOf(lines[j]) = key}}

\* The length of the longest simple directed cycle of at least two nodes in
\* the edge set E, 0 when there is none.
HasSimpleCycle(E, k) ==
    LET N == {e[1] : e \in E} \cup {e[2] : e \in E}
    IN \E c \in [1..k -> N] :
          /\ \A i, j \in 1..k : i # j => c[i] # c[j]
          /\ \A i \in 1..k : <<c[i], c[(i % k) + 1]>> \in E

LongestSimpleCycle(E) ==
    LET N  == {e[1] : e \in E} \cup {e[2] : e \in E}
        ks == {k \in 2..Cardinality(N) : HasSimpleCycle(E, k)}
    IN IF ks = {} THEN 0 ELSE CHOOSE k \in ks : \A m \in ks : m <= k

\* The longest cycle length over all the groups of the lines.
LongestOverGroups(lines) ==
    LET lens == {LongestSimpleCycle(EdgesOf(lines, g)) : g \in GroupsOf(lines)}
    IN IF lens = {} THEN 0 ELSE CHOOSE k \in lens : \A m \in lens : m <= k

\* The cycle length of a value returned by solve, 0 for None.
LengthOf(r) == IF r = ReturnNone THEN 0 ELSE r[3]

C2_OutputIndependentOfSchedule ==
    pc = "done" => ret = SerialRun(input, num_buckets, max_handles)

\* A finished thread-pool run over two buckets whose results tie at length 2;
\* the group of the first bucket in path order, (x,2), was returned.
C2_Witness ==
    /\ pc = "done"
    /\ executor = "threads"
    /\ Len(bucket_paths) = 2
    /\ results[1].cycle_length = 2
    /\ results[2].cycle_length = 2
    /\ results[1] # results[2]
    /\ ret = <<Decode(<<120>>), Decode(<<50>>), 2>>

\* ------------------------------------------------------------------------
\* C6: reordering the input lines does not change the cycle length solve
\* returns (the group may differ on a tie).  All the permutations of an input
\* have the same lines in sorted order and every sequence of lines is an
\* input, so it is stated against that one: the run on the sorted lines
\* returns the same length.
RECURSIVE InsertLine(_, _)
InsertLine(raw, sorted) ==
    IF sorted = <<>> THEN <<raw>>
    ELSE IF BytesLess(Head(sorted), raw)
    THEN <<Head(sorted)>> \o InsertLine(raw, Tail(sorted))
    ELSE <<raw>> \o sorted

RECURSIVE SortedLines(_)
SortedLines(lines) ==
    IF lines = <<>> THEN <<>>
    ELSE InsertLine(Head(lines), SortedLines(Tail(lines)))

C6_LengthIndependentOfLineOrder ==
    pc = "done" =>
        LengthOf(SerialRun(SortedLines(input), num_buckets, max_handles))
            = LengthOf(ret)

\* A run on lines that are not in sorted order and that returned a cycle, where
\* the run on the sorted lines returns another group with the same length.
C6_Witness ==
    /\ pc = "done"
    /\ LengthOf(ret) >= 2
    /\ SortedLines(input) # input
    /\ LET other == SerialRun(SortedLines(input), num_buckets, max_handles)
       IN /\ other # ret
          /\ LengthOf(other) = LengthOf(ret)

\* ------------------------------------------------------------------------
\* The low 16 bits of zlib.crc32 on the group keys of RawLines, as zlib
\* computes them: crc32(b"x|1") = 2012730938, crc32(b"x|2") = 4009658240,
\* crc32(b"y|1") = 1983233037, crc32(b"x|1|2") = 1084074986.
ZlibCrcLow(key) ==
    CASE key = <<<<120>>, <<49>>>> -> 54842
      [] key = <<<<120>>, <<50>>>> -> 34688
      [] key = <<<<121>>, <<49>>>> -> 48141
      [] key = <<<<120>>, <<49, PIPE, 50>>>> -> 44010

\* The raw lines of a bucket file, none for a file that does not exist.
LinesOfFile(d, i) == IF d[i] = NoFile THEN <<>> ELSE FileLines(d[i])

\* C3: after partition_to_buckets has returned, for every power-of-two B the
\* lines of a group (claim_id, status_code) are in exactly one bucket file,
\* the one of index crc32(claim_id + '|' + status_code) AND (B - 1), which is
\* among the returned paths; no other bucket file holds a line of the group.
C3_GroupInItsBucketOnly ==
    pc = "partitioned" =>
        \A g \in GroupsOf(input) :
            LET b == ZlibCrcLow(g) % num_buckets
            IN /\ b \in Range(bucket_paths)
               /\ \A i \in DOMAIN disk : (g \in GroupsOf(LinesOfFile(disk, i))) <=> i = b
               /\ Cardinality({k \in 1..Len(input) :
                                  IsRecordLine(input[k]) /\ KeyOf(input[k]) = g})
                    = Cardinality({k \in 1..Len(LinesOfFile(disk, b)) :
                                  KeyOf(LinesOfFile(disk, b)[k]) = g})

\* A partition into four buckets of a file with three groups, each in a
\* bucket of its own.
C3_Witness ==
    /\ pc = "partitioned"
    /\ num_buckets = 4
    /\ Cardinality(GroupsOf(input)) = 3
    /\ Len(bucket_paths) = 3

\* ------------------------------------------------------------------------
\* C8: at every point of the partition pass lines_read = empty_lines +
\* malformed_lines + lines_written; every line read has incremented exactly
\* one of the three: empty_lines counts the lines that are empty once their
\* CR and LF bytes are trimmed, malformed_lines the others with fewer than four
\* fields, lines_written the rest, which is also the number of lines appended
\* to bucket files (flushed or still buffered in a handle).
CountLines(lines, P(_)) == Cardinality({i \in 1..Len(lines) : P(lines[i])})

AppendedBytes ==
    Concat([k \in 1..num_buckets |-> IF disk[k - 1] = NoFile THEN <<>> ELSE disk[k - 1]])
        \o Concat([k \in 1..Len(cache) |-> cache[k][2]])

C8_CountersAddUp ==
    /\ stats.lines_read = stats.empty_lines + stats.malformed_lines + stats.lines_written
    /\ stats.lines_read = Len(input)
    /\ stats.empty_lines = CountLines(input, IsEmptyLine)
    /\ stats.malformed_lines = CountLines(input, IsMalformedLine)
    /\ stats.lines_written = CountLines(input, IsRecordLine)
    /\ stats.lines_written = Len(FileLines(AppendedBytes))

\* A pass that has read an empty line, a malformed line and a record.
C8_Witness ==
    /\ stats.empty_lines = 1
    /\ stats.malformed_lines = 1
    /\ stats.lines_written = 1

\* ------------------------------------------------------------------------
\* C9: after partition_to_buckets has returned, the lines of the returned
\* bucket files taken together are, as a multiset, the input lines that are
\* not empty after trimming CR and LF and have at least four fields, each
\* trimmed and ended by one LF: none lost, none twice, none changed, however
\* many handles were evicted.
ReturnedLines == FileLines(Concat([k \in 1..Len(bucket_paths) |-> disk[bucket_paths[k]]]))

ExpectedLines ==
    LET idx == {i \in 1..Len(input) : IsRecordLine(input[i])}
    IN {<<i, Trimmed(input[i]) \o <<LF>>>> : i \in idx}

C9_BucketsHoldTheRecordLines ==
    pc = "partitioned" =>
        /\ Len(ReturnedLines) = Cardinality(ExpectedLines)
        /\ \A e \in ExpectedLines :
              Cardinality({i \in 1..Len(ReturnedLines) : ReturnedLines[i] = e[2]})
                = Cardinality({f \in ExpectedLines : f[2] = e[2]})

\* A pass with one handle in which a bucket was written, evicted for another
\* bucket and written again.
C9_Witness ==
    /\ pc = "partitioned"
    /\ max_handles = 1
    /\ Len(writes) = 3
    /\ writes[1][1] = writes[3][1]
    /\ writes[1][1] # writes[2][1]
    /\ writes[1][2] # writes[3][2]

\* ------------------------------------------------------------------------
\* The raw lines of a bucket file without the records whose source and
\* destination are the same node.
IsSelfLoopLine(raw) == IsRecordLine(raw) /\ Field(raw, 1) = Field(raw, 2)
WithoutSelfLoops(lines) == SelectSeq(lines, LAMBDA raw : ~IsSelfLoopLine(raw))

\* C4: process_bucket returns None or a result of cycle_length >= 2; a group
\* whose only cycles are self-loops gives no result, under the functional walk
\* and under the DFS, and the length reported for a bucket is the one reported
\* for the same bucket with its self-loop records removed.
C4_SelfLoopsNotReported ==
    pc = "searched" =>
        /\ results[1] = NoResult \/ results[1].cycle_length >= 2
        /\ \A ord \in Perms(NodesOf(Concat(bucket_lines))) :
              process_bucket(Concat(WithoutSelfLoops(bucket_lines)), ord).cycle_length
                  = results[1].cycle_length
        /\ \A k \in 1..Len(built.edges) :
              LongestSimpleCycle(EdgesOf(bucket_lines, built.edges[k][1])) = 0
                  => <<results[1].claim_id, results[1].status_code>> # built.edges[k][1]

\* A bucket with a self-loop on A and a triangle through A, searched by the
\* DFS (A has two destinations), and reported with length 3.
C4_Witness ==
    /\ pc = "searched"
    /\ \E i \in 1..Len(bucket_lines) : IsSelfLoopLine(bucket_lines[i])
    /\ results[1].cycle_length = 3
    /\ DictGet(built.max_out_degree, <<results[1].claim_id, results[1].status_code>>, 0) = 2

\* ------------------------------------------------------------------------
\* The raw lines with every line that repeats an earlier one removed.
FirstCopies(lines) ==
    LET keep == {i \in 1..Len(lines) : \A j \in 1..(i - 1) : lines[j] # lines[i]}
        nth(n) == CHOOSE i \in keep : Cardinality({j \in keep : j <= i}) = n
    IN [n \in 1..Cardinality(keep) |-> lines[nth(n)]]

\* C5: one more copy of a record already read leaves the destination sets,
\* the max out-degree of the group and so its functional/general
\* classification as they are; the adjacency built from a bucket is the one
\* built from its lines without the repeated ones, and the cycle length
\* reported is the same.
C5_DuplicateLinesIdempotent ==
    /\ \A i \in 1..Len(bucket_lines) :
          parse_bucket_line(bucket_lines[i]) # NoRecord
              => BuildRecord(built, parse_bucket_line(bucket_lines[i])) = built
    /\ built = build_grouped_adjacency(
                   read_bucket_records(Concat(FirstCopies(bucket_lines))))
    /\ pc = "searched" =>
          \A ord \in Perms(NodesOf(Concat(bucket_lines))) :
              process_bucket(Concat(FirstCopies(bucket_lines)), ord).cycle_length
                  = results[1].cycle_length

\* A bucket with a record read twice in a functional group with a 2-cycle.
C5_Witness ==
    /\ pc = "searched"
    /\ \E i, j \in 1..Len(bucket_lines) :
          i < j /\ bucket_lines[i] = bucket_lines[j] /\ IsRecordLine(bucket_lines[i])
    /\ results[1].cycle_length = 2
    /\ DictGet(built.max_out_degree, <<results[1].claim_id, results[1].status_code>>, 0) = 1

\* ------------------------------------------------------------------------
\* C7: the adjacency of a group holds the edges of the records of that group
\* and no other: adj[(c, s)][source] is the set of destinations of the
\* records (source, _, c, s); the search of a group uses only them, so the
\* result names a group that has a simple cycle of the reported length in its
\* own edges, and edges that close a cycle only across groups give nothing.
C7_GroupsSearchedApart ==
    /\ Range(DictKeys(built.edges)) = GroupsOf(bucket_lines)
    /\ \A k \in 1..Len(built.edges) :
          LET key == built.edges[k][1]
              sets == built.edges[k][2]
              E   == EdgesOf(bucket_lines, key)
          IN /\ Range(DictKeys(sets)) = {e[1] : e \in E}
             /\ \A n \in 1..Len(sets) : sets[n][2] = {e[2] : e \in {f \in E : f[1] = sets[n][1]}}
    /\ pc = "searched" =>
          IF LongestOverGroups(bucket_lines) = 0 THEN results[1] = NoResult
          ELSE /\ results[1] # NoResult
               /\ results[1].cycle_length = LongestOverGroups(bucket_lines)
               /\ LongestSimpleCycle(EdgesOf(bucket_lines,
                      <<results[1].claim_id, results[1].status_code>>))
                    = results[1].cycle_length

\* A bucket whose groups have no cycle each while their edges put together
\* have one: nothing is reported.
C7_Witness ==
    /\ pc = "searched"
    /\ results[1] = NoResult
    /\ Cardinality(GroupsOf(bucket_lines)) >= 2
    /\ LongestSimpleCycle(UNION {EdgesOf(bucket_lines, g) : g \in GroupsOf(bucket_lines)}) >= 2

\* ------------------------------------------------------------------------
\* The buckets written so far and the position of the last write to each.
Touched == {writes[i][1] : i \in 1..Len(writes)}
LastWrite(b) == CHOOSE i \in 1..Len(writes) :
                    writes[i][1] = b /\ \A j \in (i + 1)..Len(writes) : writes[j][1] # b

\* C10: after any sequence of write calls on N distinct buckets with capacity
\* C >= 1, min(N, C) handles are open, those of the min(N, C) buckets written
\* most recently, kept in the order of their last write: a write to an open
\* bucket makes it the most recent one, and the handle evicted next is the
\* least recently written one, whatever its index.
C10_OpenHandlesAreMostRecent ==
    pc = "cache" =>
        LET keys == DictKeys(cache)
            N    == Cardinality(Touched)
        IN /\ Len(keys) = (IF N < max_handles THEN N ELSE max_handles)
           /\ Range(keys) \subseteq Touched
           /\ \A i, j \in 1..Len(keys) : i < j => LastWrite(keys[i]) < LastWrite(keys[j])
           /\ \A b \in Touched \ Range(keys) : \A k \in Range(keys) :
                  LastWrite(b) < LastWrite(k)

\* Capacity 2 and writes to the buckets 3, 1, 3, 0: the second write to 3
\* makes 1 the one evicted by the write to 0.
C10_Witness ==
    /\ pc = "cache"
    /\ max_handles = 2
    /\ [i \in 1..Len(writes) |-> writes[i][1]] = <<3, 1, 3, 0>>
    /\ DictKeys(cache) = <<3, 0>>

\* ------------------------------------------------------------------------
\* C18: the list partition_to_buckets returns holds bucket i exactly when a
\* line was written to bucket i, in index order and once: every handle has
\* been flushed and closed before the sizes are read, so a bucket whose lines
\* were all still buffered is listed, and a bucket that got no line is not.
C18_ListedIffWritten ==
    pc = "partitioned" =>
        /\ Range(bucket_paths) = {writes[i][1] : i \in 1..Len(writes)}
        /\ \A i, j \in 1..Len(bucket_paths) : i < j => bucket_paths[i] < bucket_paths[j]
        /\ cache = <<>>
        /\ \A b \in Range(bucket_paths) :
              Len(FileLines(disk[b])) = Cardinality({i \in 1..Len(writes) : writes[i][1] = b})

\* Four buckets of which two got lines, with handles that were never evicted.
C18_Witness ==
    /\ pc = "partitioned"
    /\ num_buckets = 4
    /\ max_handles = 2
    /\ Len(writes) = 3
    /\ Len(bucket_paths) = 2

\* ------------------------------------------------------------------------
\* The position in the bucket file of the first record of a group.
FirstRecord(lines, g) ==
    CHOOSE i \in 1..Len(lines) :
        /\ IsRecordLine(lines[i]) /\ KeyOf(lines[i]) = g
        /\ \A j \in 1..(i - 1) : ~(IsRecordLine(lines[j]) /\ KeyOf(lines[j]) = g)

C11_OpenFilesWithinCapacity ==
    /\ Cardinality(open_files) <= max_handles
    /\ open_files = Range(DictKeys(cache))
                       \cup (IF frame.old_handle = <<>> THEN {} ELSE {frame.old_handle[1]})
    /\ frame.old_handle # <<>> => pc = "close"
    /\ pc = "cache" => frame = NoFrame

\* A write that missed at capacity 2, after the eviction and before the open:
\* one file is open.
C11_Witness ==
    /\ pc = "evict"
    /\ max_handles = 2
    /\ Len(writes) >= 2
    /\ frame.old_handle = <<>>
    /\ Cardinality(open_files) = 1

\* ------------------------------------------------------------------------
\* A string that is the word up to the case of its ASCII letters.
SameUpToCase(str, word) ==
    /\ Len(str) = Len(word)
    /\ \A i \in 1..Len(word) : str[i] = word[i] \/ str[i] = word[i] - 32

\* C20: the policy selected is threads, processes or serial when RC_EXECUTOR
\* is that word in any mix of upper and lower case; for every other value and
\* for an unset variable it is processes when the GIL is enabled and threads
\* when it is disabled.
C20_PolicyFromEnvironment ==
    pc # "select" =>
        executor =
            IF SameUpToCase(rc_executor, StrThreads) THEN "threads"
            ELSE IF SameUpToCase(rc_executor, StrProcesses) THEN "processes"
            ELSE IF SameUpToCase(rc_executor, StrSerial) THEN "serial"
            ELSE IF gil_enabled THEN "processes"
            ELSE "threads"

\* RC_EXECUTOR=SeRiAl with the GIL disabled selects the serial policy.
C20_Witness ==
    /\ pc # "select"
    /\ rc_executor = <<83, 101, 82, 105, 65, 108>>
    /\ ~gil_enabled
    /\ executor = "serial"

\* --------------------------------------------------- claims on main_solve

\* n is a power of two.
IsPowerOfTwo(n) == \E k \in 0..30 : n = Pow2(k)

\* C13: for every bucket count that is not a power of two (0 and the negative
\* ones included) solve fails with an error before the scratch directory is
\* created and before any input line is read; for every power of two the
\* validation passes.
C13_NonPowersOfTwoRejected ==
    pc # "validate" =>
        IF IsPowerOfTwo(num_buckets)
        THEN ret # Raise("ValueError")
        ELSE /\ pc = "raised"
             /\ ret = Raise("ValueError")
             /\ tmp_dir = "none"
             /\ input = <<>>

\* C14, as the code has it: when the input path does not exist, solve creates
\* the scratch directory, partition_to_buckets raises FileNotFoundError at the
\* open of the input, before any line is read and before any bucket file is
\* opened or created, and solve runs the removal of the scratch directory
\* before the error leaves it.
C14_MissingInputFailsAtOpen ==
    ~input_exists =>
        /\ pc \in {"validate", "select", "mkdtemp", "open", "unwinding", "raised"}
        /\ input = <<>> /\ writes = <<>> /\ open_files = {} /\ cache = <<>>
        /\ \A i \in DOMAIN disk : disk[i] = NoFile
        /\ pc = "unwinding" => ret = Raise("FileNotFoundError") /\ tmp_dir = "exists"
        /\ pc = "raised" /\ tmp_dir # "none" =>
              /\ ret = Raise("FileNotFoundError")
              /\ tmp_dir \in {"removed", "left"}
        /\ pc = "raised" /\ tmp_dir = "none" =>
              ret \in {Raise("ValueError"), Raise("OSError")}

C14_Witness ==
    /\ ~input_exists
    /\ pc = "raised"
    /\ ret = Raise("FileNotFoundError")
    /\ tmp_dir = "removed"

\* C14 as stated: when the input path does not exist, solve fails before the
\* scratch directory is created.
C14_MissingInputBeforeScratch == ~input_exists => tmp_dir = "none"

\* C15: when the partition pass has written no line, the returned bucket list
\* is empty, solve returns None with no work item submitted and no bucket
\* processed, and main_solve prints 0.
C15_NothingWrittenPrintsZero ==
    writes = <<>> /\ pc \notin {"validate", "select", "mkdtemp", "open",
                                "partition", "unwinding", "raised"} =>
        /\ pc \in {"partitioned", "done", "printed"}
        /\ bucket_paths = <<>>
        /\ tasks = <<>> /\ results = <<>> /\ taken = <<>>
        /\ best_result = NoResult
        /\ pc = "partitioned" => ret = Running
        /\ pc \in {"done", "printed"} => ret = ReturnNone
        /\ pc = "done" => stdout = <<>>
        /\ pc = "printed" => stdout = << <<48>> >>

C15_Witness ==
    /\ pc = "printed"
    /\ writes = <<>>
    /\ Len(input) = MaxMainLines
    /\ stats.empty_lines >= 1
    /\ stats.malformed_lines >= 1
    /\ stdout = << <<48>> >>

\* solve has returned or raised.
Exited == pc \in {"done", "printed", "raised"}

C17_HandlesClosedAtExit ==
    pc \notin {"validate", "select", "mkdtemp", "open", "partition"} =>
        open_files = {} /\ cache = <<>>

\* ----------------------------------------------- claims on the graph build

\* The greatest member of a non-empty set of numbers, 0 for the empty set.
Greatest(S) == IF S = {} THEN 0 ELSE CHOOSE k \in S : \A m \in S : m <= k

\* C26: after each record build_grouped_adjacency has processed, for every
\* group seen so far the adjacency sets hold exactly the distinct edges of the
\* group's lines, max_out_degree of the group is the greatest number of
\* distinct destinations of one source, and so the group is classified
\* functional exactly when every source has at most one distinct destination.
C26_OutDegreeIsMaximum ==
    pc = "build" =>
        /\ Range(DictKeys(built.edges)) = GroupsOf(bucket_lines)
        /\ Range(DictKeys(built.max_out_degree)) = GroupsOf(bucket_lines)
        /\ \A g \in GroupsOf(bucket_lines) :
              LET E    == EdgesOf(bucket_lines, g)
                  sets == DictGet(built.edges, g, <<>>)
                  deg  == DictGet(built.max_out_degree, g, 0)
              IN /\ Range(DictKeys(sets)) = {e[1] : e \in E}
                 /\ \A s \in {e[1] : e \in E} :
                       DictGet(sets, s, {}) = {e[2] : e \in {x \in E : x[1] = s}}
                 /\ deg = Greatest({Cardinality({e \in E : e[1] = s}) :
                                       s \in {e[1] : e \in E}})
                 /\ (deg <= 1) <=>
                       \A e1, e2 \in E : e1[1] = e2[1] => e1[2] = e2[2]

\* Four lines read: a group with a source of two destinations, one of its
\* lines read twice, and a functional group beside it.
C26_Witness ==
    /\ pc = "build"
    /\ Len(bucket_lines) = 4
    /\ \E i, j \in 1..4 : i < j /\ bucket_lines[i] = bucket_lines[j]
    /\ \E g, h \in Range(DictKeys(built.max_out_degree)) :
          /\ DictGet(built.max_out_degree, g, 0) = 2
          /\ DictGet(built.max_out_degree, h, 0) = 1

\* ------------------------------------------------- claims on the reduction

\* The results process_results has taken from the stream, in the order it
\* took them.
Consumed == [k \in 1..Len(taken) |-> results[taken[k]]]

\* The first non-absent result of a sequence whose length is the greatest of
\* the sequence, NoResult when every result is absent.
FirstLongest(stream) ==
    LET present == {k \in 1..Len(stream) : stream[k] # NoResult}
        top     == Greatest({stream[k].cycle_length : k \in present})
        first   == CHOOSE k \in present :
                      /\ stream[k].cycle_length = top
                      /\ \A j \in present : stream[j].cycle_length = top => k <= j
    IN IF present = {} THEN NoResult ELSE stream[first]

WrittenTo(b) ==
    LET calls == SelectSeq(writes, LAMBDA w : w[1] = b)
    IN Concat([k \in 1..Len(calls) |-> calls[k][2]])

\* What a handle of bucket b still buffers.
BufferedFor(b) == DictGet(cache, b, <<>>)

\* C28: for any sequence of write calls followed by close_all, with any
\* capacity >= 1, the content of each bucket file is the concatenation, in call
\* order, of the data written to that bucket (before close_all: the file
\* followed by what its handle buffers); a bucket never written has no file,
\* and nothing is lost or overwritten when a bucket is evicted and reopened.
C28_FilesHoldWritesInOrder ==
    pc \in {"cache", "closed"} =>
        /\ pc = "closed" => cache = <<>>
        /\ \A b \in DOMAIN disk :
              /\ disk[b] = NoFile <=> b \notin Touched
              /\ b \in Touched => disk[b] \o BufferedFor(b) = WrittenTo(b)

\* Capacity 1: a bucket written, evicted by a write to another bucket, and
\* written twice more after its file was reopened.
C28_Witness ==
    /\ pc = "closed"
    /\ max_handles = 1
    /\ Len(writes) = 4
    /\ writes[1][1] = writes[3][1]
    /\ writes[1][1] = writes[4][1]
    /\ writes[1][1] # writes[2][1]
    /\ disk[writes[1][1]] = writes[1][2] \o writes[3][2] \o writes[4][2]

\* ------------------------------------------------ claims on the line parsing

\* The input lines that are records, in input order.
RecordLines == SelectSeq(input, IsRecordLine)

\* C21: a line yields a record exactly when, trimmed of its trailing LF and
\* CR bytes, it is not empty and holds at least three '|' bytes; source,
\* destination and claim_id are the first three fields and status_code the
\* whole remainder; the partitioner and the bucket processor apply the same
\* rule, so every line the partitioner writes is parsed by the bucket processor
\* into the record of the input line, whose group key gives the bucket index
\* the partitioner computed.
C21_SameParsingRule ==
    /\ \A i \in 1..Len(input) :
          LET raw == input[i]
              rec == parse_bucket_line(raw)
          IN /\ (rec # NoRecord) <=>
                    (Trimmed(raw) # <<>> /\ Cardinality(Bars(Trimmed(raw))) >= 3)
             /\ rec # NoRecord =>
                    /\ Len(rec) = 4
                    /\ \A k \in 1..4 : rec[k] = Field(raw, k)
                    /\ \A k \in 1..3 : PIPE \notin Range(rec[k])
                    /\ rec[1] \o <<PIPE>> \o rec[2] \o <<PIPE>> \o rec[3] \o <<PIPE>> \o rec[4]
                          = Trimmed(raw)
    /\ Len(writes) = Len(RecordLines)
    /\ \A k \in 1..Len(writes) :
          LET rec == parse_bucket_line(writes[k][2])
          IN /\ writes[k][2] = Trimmed(RecordLines[k]) \o <<LF>>
             /\ rec # NoRecord
             /\ rec = parse_bucket_line(RecordLines[k])
             /\ BucketIndex(rec[3], rec[4], num_buckets) = writes[k][1]
    /\ pc = "partitioned" =>
          \A p \in Range(bucket_paths) :
             LET recs == read_bucket_records(disk[p])
             IN /\ Len(recs) = Len(FileLines(disk[p]))
                /\ \A k \in 1..Len(recs) :
                      BucketIndex(recs[k][3], recs[k][4], num_buckets) = p

\* A finished pass over a line whose status code holds a '|', a line ended
\* by CR CR LF and a line of three fields.
C21_Witness ==
    /\ pc = "partitioned"
    /\ Len(input) = 3
    /\ stats.malformed_lines = 1
    /\ Len(writes) = 2
    /\ \E k \in 1..2 : parse_bucket_line(writes[k][2])[4] = <<49, PIPE, 50>>
    /\ \E i \in 1..3 : Len(input[i]) > 2 /\ SubSeq(input[i], Len(input[i]) - 2, Len(input[i])) = <<CR, CR, LF>>

\* --------------------------------------------------- claims on the phases

\* A bucket processor has been started: a work item has left the queue, or
\* the serial generator has produced a result.
SomeProcessorStarted ==
    \/ \E t \in 1..Len(tasks) : tasks[t].status \in {"running", "done", "failed"}
    \/ \E i \in 1..Len(results) : results[i] # NoResult
    \/ taken # <<>>

\* C29: no bucket processor starts before the partitioner has written its
\* last line and closed every handle, so that while processors may run every
\* returned bucket file is complete and no handle is open; each returned path
\* belongs to exactly one work item of the pool (or is reached once by the
\* serial generator, in order); and the removal of the scratch directory runs
\* only when no started processor is still running, under every policy and
\* interleaving.
C29_PhasesApart ==
    /\ SomeProcessorStarted \/ tasks # <<>> \/ pc \in {"serial", "pool", "shutdown"} =>
          /\ pc \in {"serial", "pool", "shutdown", "unwinding", "raised", "done",
                     "printed"}
          /\ cache = <<>>
          /\ open_files = {}
          /\ bucket_paths # <<>>
    /\ pc \in {"serial", "pool", "shutdown"} =>
          /\ tmp_dir = "exists"
          /\ \A i \in 1..Len(bucket_paths) :
                disk[bucket_paths[i]] = WrittenTo(bucket_paths[i])
    /\ tasks # <<>> =>
          \A i \in 1..Len(bucket_paths) :
             Cardinality({t \in 1..Len(tasks) : i \in tasks[t].lo..tasks[t].hi}) = 1
    /\ tasks = <<>> => taken = [k \in 1..Len(taken) |-> k]
    /\ \A k, m \in 1..Len(taken) : k # m => taken[k] # taken[m]
    /\ (\E t \in 1..Len(tasks) : tasks[t].status = "running") =>
          tmp_dir = "exists" /\ pc \in {"pool", "shutdown"}
    /\ tmp_dir \in {"removed", "left"} =>
          \A t \in 1..Len(tasks) : tasks[t].status # "running"

\* Two work items under the thread pool: the first failed and its error was
\* raised while the second had been started; the second finished, and then
\* the directory was removed.
C29_Witness ==
    /\ pc = "raised"
    /\ executor = "threads"
    /\ Len(tasks) = 2
    /\ tasks[1].status = "failed"
    /\ tasks[2].status = "done"
    /\ taken = <<>>
    /\ tmp_dir = "removed"

\* ---------------------------------------------- claims on the cycle searches

\* The edges of the adjacency map under search.
EdgesOfAdj == UNION {{<<adj[i][1], d>> : d \in adj[i][2]} : i \in 1..Len(adj)}

\* c lists the nodes of a simple directed cycle of E of at least two nodes,
\* from its least node on.
IsSimpleCycle(c, E) ==
    /\ Len(c) >= 2
    /\ \A i, j \in 1..Len(c) : i # j => c[i] # c[j]
    /\ \A i \in 1..Len(c) : <<c[i], c[(i % Len(c)) + 1]>> \in E
    /\ \A i \in 2..Len(c) : BytesLess(c[1], c[i])

\* The simple cycles of E of at least two nodes, each listed once.
CyclesOf(E) ==
    LET N == {e[1] : e \in E}
    IN {c \in UNION {[1..k -> N] : k \in 2..Cardinality(N)} : IsSimpleCycle(c, E)}

\* C22: on every adjacency map in which each source has one destination,
\* find_cycle_functional returns the length of the longest simple cycle of at
\* least two nodes, 0 when there is none, whatever the order in which the
\* start nodes are iterated (tails entering a cycle, several cycles and tails
\* reaching a cycle an earlier walk resolved included).
C22_FunctionalFindsLongest ==
    pc = "returned" /\ is_functional =>
        /\ longest = LongestSimpleCycle(EdgesOfAdj)
        /\ longest = find_cycle_functional(adj, iter_order)

\* The walk from B closed the cycle B, A; the walk from C then stopped at the
\* globally visited A.
C22_Witness ==
    /\ pc = "returned"
    /\ is_functional
    /\ longest = 2
    /\ added = << <<66>>, <<65>>, <<67>> >>
    /\ <<<<67>>, <<65>>>> \in EdgesOfAdj

\* C23: on every adjacency map (any out-degrees, self-loops, destinations
\* without outgoing edges) find_cycle_dfs returns the length of the longest
\* simple directed cycle of at least two nodes, 0 when there is none: entering
\* only nodes of index >= the start's index never hides the longest cycle.
C23_DfsFindsLongest ==
    pc = "returned" /\ ~is_functional =>
        /\ longest = LongestSimpleCycle(EdgesOfAdj)
        /\ longest = find_cycle_dfs(adj, iter_order)

\* A triangle and a self-loop on one of its nodes.
C23_Witness ==
    /\ pc = "returned"
    /\ ~is_functional
    /\ longest = 3
    /\ \E n \in SearchNodes : <<n, n>> \in EdgesOfAdj
    /\ ~OneDestination(EdgesOfAdj)

\* C24: on every adjacency map in which each source has one destination the
\* two searches return the same value: find_longest_cycle(adj, True) =
\* find_longest_cycle(adj, False).
C24_SearchesAgree ==
    pc = "returned" /\ OneDestination(EdgesOfAdj) =>
        /\ longest = find_longest_cycle(adj, ~is_functional, iter_order)
        /\ find_longest_cycle(adj, TRUE, iter_order)
              = find_longest_cycle(adj, FALSE, iter_order)

\* The functional search has returned 2 on two 2-cycles.
C24_Witness ==
    /\ pc = "returned"
    /\ is_functional
    /\ longest = 2
    /\ Cardinality(EdgesOfAdj) = 4
    /\ Cardinality(CyclesOf(EdgesOfAdj)) = 2

\* C25: during a run of find_cycle_dfs every arrival at the recording branch
\* is for a simple cycle of at least two nodes, of the length computed there,
\* reached from the DFS started at the cycle's node of least index; no cycle
\* arrives twice; and when the search has returned every simple cycle of at
\* least two nodes has arrived once.
C25_EachCycleOnceFromItsLeastNode ==
    ~is_functional =>
        /\ \A k \in 1..Len(recorded) :
              /\ IsSimpleCycle(recorded[k].cycle, EdgesOfAdj)
              /\ recorded[k].cycle_len = Len(recorded[k].cycle)
              /\ recorded[k].start_idx = IdxGet(NodesSorted, recorded[k].cycle[1])
        /\ \A k, m \in 1..Len(recorded) :
              k # m => recorded[k].cycle # recorded[m].cycle
        /\ pc = "returned" =>
              {recorded[k].cycle : k \in 1..Len(recorded)} = CyclesOf(EdgesOfAdj)

\* The 2-cycles A, B and C, D: the first recorded from the start of index 0,
\* the second from the start of index 2, none from the starts B and D.
C25_Witness ==
    /\ pc = "returned"
    /\ ~is_functional
    /\ Len(recorded) = 2
    /\ recorded[1].start_idx = 0
    /\ recorded[2].start_idx = 2
    /\ Len(NodesSorted) = 4

\* What bounds the searches: no node is given a position in a path_order
\* twice over all the walks; in find_cycle_dfs the path is the set of the
\* nodes of the calls in progress, one more with each deeper call, and it is
\* {start} again when the DFS from a start has returned.
SearchBounded ==
    /\ \A i, j \in 1..Len(added) : i # j => added[i] # added[j]
    /\ Range(path_order) \subseteq Range(added)
    /\ pc = "dfs" =>
          /\ path = {stack[k].node : k \in 1..Len(stack)}
          /\ Cardinality(path) = Len(stack)
          /\ \A k \in 1..Len(stack) : stack[k].depth = k - 1
    /\ pc = "dfs_for" /\ Len(starts) < Len(NodesSorted) =>
          /\ stack = <<>>
          /\ path = {NodesSorted[Len(NodesSorted) - Len(starts)]}

\* C30: both cycle searches terminate on every finite adjacency map: every
\* run returns, and until then SearchBounded holds.
C30_SearchesTerminate == []SearchBounded /\ <>(pc = "returned")

\* find_cycle_dfs has returned 4 on a cycle through the four nodes, the path
\* being the last start alone.
C30_Witness ==
    /\ pc = "returned"
    /\ ~is_functional
    /\ longest = 4
    /\ path = {<<68>>}
    /\ stack = <<>>

====
